---- MODULE Spec2Model ----
(***************************************************************************)
(* Assembly64 browser, C64 client (c64client/src/main.c) on top of the     *)
(* Ultimate II+ command library (c64client/src/ultimate.c).                *)
(*                                                                         *)
(* Text is modelled at the byte level: a C string is a sequence of         *)
(* one-character strings, NUL is the empty string.  The socket is a queue  *)
(* of read results (chunks) that uci_socket_read hands out one at a time.  *)
(***************************************************************************)
EXTENDS Integers, Sequences, FiniteSets, TLC

\* ======================================================================
\* Characters and C strings
\* ======================================================================

NUL == ""
LF  == "\n"
CR  == "\r"

Digits == {"0", "1", "2", "3", "4", "5", "6", "7", "8", "9"}

DigitVal(c) ==
  CASE c = "0" -> 0 [] c = "1" -> 1 [] c = "2" -> 2 [] c = "3" -> 3
    [] c = "4" -> 4 [] c = "5" -> 5 [] c = "6" -> 6 [] c = "7" -> 7
    [] c = "8" -> 8 [] c = "9" -> 9

DigitChar(d) ==
  CASE d = 0 -> "0" [] d = 1 -> "1" [] d = 2 -> "2" [] d = 3 -> "3"
    [] d = 4 -> "4" [] d = 5 -> "5" [] d = 6 -> "6" [] d = 7 -> "7"
    [] d = 8 -> "8" [] d = 9 -> "9"

\* isspace() of the C library, as far as atoi skips it
Spaces == {" ", "\t", LF, CR}

\* The byte at 0-based index i of a buffer; a static buffer is zero-filled
\* beyond what was ever written to it.
At(buf, i) == IF i >= 0 /\ i < Len(buf) THEN buf[i + 1] ELSE NUL

\* Store the bytes s into buf from 0-based index i on (i <= Len(buf)),
\* keeping the rest.
Poke(buf, i, s) ==
  SubSeq(buf, 1, i) \o s \o SubSeq(buf, i + Len(s) + 1, Len(buf))

\* The 0-based index of the first byte at or after i that is in S or is NUL
FirstAt(buf, i, S) ==
  CHOOSE j \in i..(IF i > Len(buf) THEN i ELSE Len(buf)) :
    /\ At(buf, j) \in S \cup {NUL}
    /\ \A k \in i..(j - 1) : At(buf, k) \notin S \cup {NUL}

\* strlen(buf + i)
StrLenAt(buf, i) == FirstAt(buf, i, {}) - i

\* The C string that starts at buf + i, without its NUL
CStr(buf, i) == SubSeq(buf, i + 1, FirstAt(buf, i, {}))

\* strchr(buf + i, c): the 0-based index of the first c at or after i,
\* -1 for a NULL result
StrChrAt(buf, j, c) == IF At(buf, j) = c THEN j ELSE -1

StrChr(buf, i, c) == StrChrAt(buf, FirstAt(buf, i, {c}), c)

RECURSIVE AtoiDigits(_, _, _)
AtoiDigits(buf, i, acc) ==
  IF At(buf, i) \in Digits
  THEN AtoiDigits(buf, i + 1, acc * 10 + DigitVal(At(buf, i)))
  ELSE acc

RECURSIVE SkipSpaces(_, _)
SkipSpaces(buf, i) == IF At(buf, i) \in Spaces THEN SkipSpaces(buf, i + 1) ELSE i

\* atoi(buf + i): leading white space, an optional sign, decimal digits
Atoi(buf, i) ==
  LET j == SkipSpaces(buf, i)
  IN  IF At(buf, j) = "-" THEN 0 - AtoiDigits(buf, j + 1, 0)
      ELSE IF At(buf, j) = "+" THEN AtoiDigits(buf, j + 1, 0)
      ELSE AtoiDigits(buf, j, 0)

\* sprintf("%d", n)
RECURSIVE DecDigits(_)
DecDigits(n) ==
  IF n < 10 THEN <<DigitChar(n)>>
  ELSE Append(DecDigits(n \div 10), DigitChar(n % 10))

Dec(n) == IF n < 0 THEN <<"-">> \o DecDigits(0 - n) ELSE DecDigits(n)

\* strncpy(dst, src, n); dst[n] = 0 : the first n bytes of the C string
StrNCpy(s, n) == IF Len(s) > n THEN SubSeq(s, 1, n) ELSE s

\* ======================================================================
\* ultimate.c: the socket as the client sees it, and the line reader
\* ======================================================================
\* An io record is the part of the state a protocol operation reads and
\* writes while it runs:
\*   data, index, len : uci_data (its payload, after the two length bytes),
\*                      uci_data_index, uci_data_len
\*   net              : the results the next uci_socket_read calls will
\*                      return, oldest first; each is [n, d] with n the
\*                      returned length (-1 "retry", 0 no data) and d the
\*                      payload
\*   closed           : the peer has closed; once net is used up every read
\*                      returns 0.  While the peer is open and net is used
\*                      up a read has nothing to return and next_char polls
\*                      for ever: blocked
\*   lb               : line_buffer of main.c
\*   reads            : uci_socket_read calls made (bookkeeping)

Chunk(d) == [n |-> Len(d), d |-> d]
RetryChunk == [n |-> -1, d |-> <<>>]

\* uci_socket_read, called by uci_tcp_nextchar in its do-while loop
RECURSIVE uci_socket_read_loop(_)
uci_socket_read_loop(io) ==
  IF io.net = <<>>
  THEN IF io.closed
       THEN [c |-> NUL,
             io |-> [io EXCEPT !.len = 0, !.data = <<>>, !.reads = @ + 1]]
       ELSE [c |-> NUL, io |-> [io EXCEPT !.blocked = TRUE, !.reads = @ + 1]]
  ELSE LET h   == Head(io.net)
           io1 == [io EXCEPT !.net = Tail(@), !.data = h.d, !.len = h.n,
                             !.reads = @ + 1]
       IN  IF h.n = 0 THEN [c |-> NUL, io |-> io1]
           ELSE IF h.n = -1 THEN uci_socket_read_loop(io1)
           ELSE [c |-> At(h.d, 0), io |-> [io1 EXCEPT !.index = 1]]

\* A uci_tcp_nextchar that takes a buffered byte from the start of uci_data
uci_tcp_nextchar_first(io) ==
  IF io.index < io.len
  THEN [c |-> At(io.data, 0), io |-> [io EXCEPT !.index = @ + 1]]
  ELSE uci_socket_read_loop(io)

\* uci_tcp_nextchar: a buffered byte, or else the first byte of the next
\* read that is neither a retry (-1) nor empty; 0 after an empty read
uci_tcp_nextchar(io) ==
  IF io.index < io.len
  THEN [c |-> At(io.data, io.index), io |-> [io EXCEPT !.index = @ + 1]]
  ELSE uci_socket_read_loop(io)

\* uci_tcp_nextline_internal with swapcase = false; the result is the io
\* record with the line stored in lb, and flag, the function's return value.
\* uci_tcp_nextline_char is the loop body for the character r just read.
Unread(io) == SubSeq(io.data, io.index + 1, io.len)

FirstStop(s) ==
  IF \E i \in 1..Len(s) : s[i] \in {NUL, LF}
  THEN CHOOSE i \in 1..Len(s) :
         s[i] \in {NUL, LF} /\ \A j \in 1..(i - 1) : s[j] \notin {NUL, LF}
  ELSE 0

\* A filter that keeps the carriage returns
NoCR_keep(s) == s

\* if (c == 0x0D) continue;
NoCR(s) == SelectSeq(s, LAMBDA c : c # CR)

uci_tcp_nextline_done(io, acc, c) ==
  [io   |-> [io EXCEPT !.lb = Poke(@, 0, Append(acc, NUL))],
   flag |-> (c # NUL \/ Len(acc) > 0)]

\* A line reader that ends the line where the buffered bytes end
uci_tcp_nextline_chunk(io, acc, s, p) ==
  IF p = 0
  THEN uci_tcp_nextline_done([io EXCEPT !.index = io.len], acc \o s, LF)
  ELSE uci_tcp_nextline_done([io EXCEPT !.index = @ + p],
                             acc \o SubSeq(s, 1, p - 1), s[p])

RECURSIVE uci_tcp_nextline_loop(_, _)
uci_tcp_nextline_buffered(io, acc, s, p) ==
  IF p = 0
  THEN uci_tcp_nextline_loop([io EXCEPT !.index = io.len], acc \o NoCR(s))
  ELSE uci_tcp_nextline_done([io EXCEPT !.index = @ + p],
                             acc \o NoCR(SubSeq(s, 1, p - 1)), s[p])

uci_tcp_nextline_refill(acc, r) ==
  IF r.io.blocked THEN [io |-> r.io, flag |-> FALSE]
  ELSE IF r.c = NUL \/ r.c = LF THEN uci_tcp_nextline_done(r.io, acc, r.c)
  ELSE uci_tcp_nextline_loop(r.io, acc \o NoCR(<<r.c>>))

uci_tcp_nextline_loop(io, acc) ==
  IF io.index < io.len
  THEN uci_tcp_nextline_buffered(io, acc, Unread(io), FirstStop(Unread(io)))
  ELSE uci_tcp_nextline_refill(acc, uci_socket_read_loop(io))

uci_tcp_nextline(io) == uci_tcp_nextline_loop(io, <<>>)

\* read_line of main.c
read_line(io) == uci_tcp_nextline(io).io

\* A uci_socket_write that sets the reader back to the start of the buffer
\* and leaves the buffer as it is
uci_socket_write_rewind(io) == [io EXCEPT !.index = 0]

\* uci_socket_write: the command's own response overwrites uci_data and the
\* reader's position is reset
uci_socket_write(io) == [io EXCEPT !.data = <<>>, !.index = 0, !.len = 0]

\* A further read_line cannot change anything: the reader is at end of file
\* and line_buffer already holds the empty line it would store.
AtEOF(io) ==
  /\ io.index >= io.len
  /\ io.net = <<>>
  /\ io.closed
  /\ io.len = 0
  /\ At(io.lb, 0) = NUL

\* ======================================================================
\* main.c: the protocol operations, as functions of the io record
\* ======================================================================

MAX_ITEMS == 20
MAX_INFO_LINES == 12
NAME_MAX == 31

PAGE_CATS        == 0
PAGE_LIST        == 1
PAGE_SEARCH      == 2
PAGE_SETTINGS    == 3
PAGE_ADV_SEARCH  == 4
PAGE_ADV_RESULTS == 5
PAGE_INFO        == 6

\* A protocol operation works on a list record
\*   [io, hung, item_count, total_count, offset, item_ids, item_names, hdr]
\* hung: the operation never returns (it polls a socket that has nothing to
\* deliver, or re-reads at end of file without making progress); the other
\* fields then hold the values at that point.  hdr is line_buffer as it
\* was when the operation parsed the response header (bookkeeping).

\* parse_ok_count
parse_ok_count(lb) == Atoi(lb, 3)

\* The body loop of load_categories (292-308).  load_categories_store is
\* what the body does with a line that is not the terminator: p is the
\* position of its '|'
load_categories_store(L, io1, p) ==
  IF p = -1 THEN [L EXCEPT !.io = io1]
  ELSE [L EXCEPT !.io = [io1 EXCEPT !.lb = Poke(@, p, <<NUL>>)],
                 !.item_names[L.item_count + 1] =
                    StrNCpy(CStr(Poke(io1.lb, p, <<NUL>>), 0), NAME_MAX),
                 !.item_ids[L.item_count + 1] = Atoi(io1.lb, p + 1),
                 !.item_count = @ + 1]

\* load_categories_line is the loop body for the line just read (io1)
RECURSIVE load_categories_loop(_)
load_categories_line(L, io1) ==
  IF io1.blocked \/ At(io1.lb, 0) = "."
  THEN [L EXCEPT !.io = io1, !.hung = io1.blocked]
  ELSE load_categories_loop(
         load_categories_store(L, io1, StrChr(io1.lb, 0, "|")))

load_categories_loop(L) ==
  IF L.item_count < MAX_ITEMS /\ ~AtEOF(L.io)
  THEN load_categories_line(L, read_line(L.io))
  ELSE [L EXCEPT !.hung = (L.item_count < MAX_ITEMS)]

\* cursor = 0; offset = 0 at the end of load_categories
load_categories_end(L) == IF L.hung THEN L ELSE [L EXCEPT !.offset = 0]

\* load_categories from its header line (io1) on
load_categories_header(L0, io1) ==
  IF io1.blocked THEN [L0 EXCEPT !.io = io1, !.hung = TRUE]
  ELSE load_categories_end(load_categories_loop(
         [L0 EXCEPT !.io = io1, !.hdr = io1.lb,
                    !.item_count = 0,
                    !.total_count = parse_ok_count(io1.lb)]))

\* load_categories after send_command("CATS"): header, then the body loop
load_categories_read(L0) == load_categories_header(L0, read_line(L0.io))

\* The entry loop shared, line for line, by load_entries (347-370),
\* do_search (423-446) and do_adv_search (514-537).  entries_store is what
\* the body does with a line that is not the terminator: name is the
\* position of its first '|', end that of the second
entries_cut(lb, end) == IF end # -1 THEN Poke(lb, end, <<NUL>>) ELSE lb

entries_name(lb2, name) ==
  CStr(entries_cut(lb2, StrChr(lb2, name + 1, "|")), name + 1)

\* A loop body that counts every line as an item
entries_store_all(L, io1, name) ==
  [L EXCEPT !.io = io1,
            !.item_ids[L.item_count + 1] = Atoi(io1.lb, 0),
            !.item_count = @ + 1]

entries_store(L, io1, name) ==
  IF name = -1 THEN [L EXCEPT !.io = io1]
  ELSE [L EXCEPT !.io = [io1 EXCEPT !.lb =
                           entries_cut(Poke(@, name, <<NUL>>),
                                       StrChr(Poke(@, name, <<NUL>>), name + 1, "|"))],
                 !.item_ids[L.item_count + 1] = Atoi(Poke(io1.lb, name, <<NUL>>), 0),
                 !.item_names[L.item_count + 1] =
                    StrNCpy(entries_name(Poke(io1.lb, name, <<NUL>>), name), NAME_MAX),
                 !.item_count = @ + 1]

\* entries_line is the loop body for the line just read (io1)
RECURSIVE entries_loop(_, _)
\* A loop body that takes only the line "." for the terminator
entries_line_exact(L, n, io1) ==
  IF io1.blocked \/ CStr(io1.lb, 0) = <<".">>
  THEN [L EXCEPT !.io = io1, !.hung = io1.blocked]
  ELSE entries_loop(entries_store(L, io1, StrChr(io1.lb, 0, "|")), n)

entries_line(L, n, io1) ==
  IF io1.blocked \/ At(io1.lb, 0) = "."
  THEN [L EXCEPT !.io = io1, !.hung = io1.blocked]
  ELSE entries_loop(entries_store(L, io1, StrChr(io1.lb, 0, "|")), n)

entries_loop(L, n) ==
  IF L.item_count < MAX_ITEMS /\ L.item_count < n /\ ~AtEOF(L.io)
  THEN entries_line(L, n, read_line(L.io))
  ELSE [L EXCEPT !.hung = (L.item_count < MAX_ITEMS /\ L.item_count < n)]

\* "Consume remaining lines until '.'" (373-374, 449-450, 540-541, 590-591)
RECURSIVE drain_loop(_)
drain_line(io1) ==
  IF io1.blocked THEN [io |-> io1, hung |-> TRUE] ELSE drain_loop(io1)

drain_loop(io) ==
  IF At(io.lb, 0) # "." /\ ~AtEOF(io)
  THEN drain_line(read_line(io))
  ELSE [io |-> io, hung |-> At(io.lb, 0) # "."]

\* The header "OK n total" as load_entries (336-341), do_search (412-417)
\* and do_adv_search (503-508) parse it: n is read three bytes into
\* line_buffer whatever the line is, total_count is assigned only when a
\* space follows
parse_header(lb, total) ==
  LET p == StrChr(lb, 3, " ")
  IN  [n |-> Atoi(lb, 3), total |-> IF p # -1 THEN Atoi(lb, p + 1) ELSE total]

\* The list record with the outcome d of the drain loop
entries_drained(L, d) == [L EXCEPT !.io = d.io, !.hung = d.hung]

\* The entry operations without their drain loop, as load_categories is
entries_nodrain(L) == L

\* The drain loop after the entry loop
entries_drain(L) == IF L.hung THEN L ELSE entries_drained(L, drain_loop(L.io))

\* An entry loop that adds to the items already there
entries_body_append(L0, start, io1, h) ==
  entries_drain(entries_loop([L0 EXCEPT !.io = io1, !.hdr = io1.lb,
                                        !.total_count = h.total,
                                        !.offset = start], h.n))

\* The entry loop for the parsed header h
entries_body(L0, start, io1, h) ==
  entries_drain(entries_loop([L0 EXCEPT !.io = io1, !.hdr = io1.lb,
                                        !.total_count = h.total,
                                        !.item_count = 0,
                                        !.offset = start], h.n))

\* load_entries / do_search / do_adv_search from the header line (io1) on
entries_header(L0, start, io1) ==
  IF io1.blocked THEN [L0 EXCEPT !.io = io1, !.hung = TRUE]
  ELSE entries_body(L0, start, io1, parse_header(io1.lb, L0.total_count))

\* load_entries / do_search / do_adv_search after send_command: header
\* "OK n total", the entry loop, the drain loop
entries_read(L0, start) == entries_header(L0, start, read_line(L0.io))

\* run_entry after send_command: one response line
run_entry_read(io) == read_line(io)

\* The body loop of fetch_info; F is [io, hung, ok, info_labels, info_values,
\* info_line_count]
LABEL_MAX == 7

\* A loop body that keeps a pair whatever its value is
fetch_info_store_any(F, io1, sep) ==
  IF sep = -1 THEN [F EXCEPT !.io = io1]
  ELSE [F EXCEPT !.io = [io1 EXCEPT !.lb = Poke(@, sep, <<NUL>>)],
                 !.info_labels[F.info_line_count + 1] =
                    StrNCpy(CStr(Poke(io1.lb, sep, <<NUL>>), 0), LABEL_MAX),
                 !.info_values[F.info_line_count + 1] =
                    StrNCpy(CStr(io1.lb, sep + 1), NAME_MAX),
                 !.info_line_count = @ + 1]

\* fetch_info_store is what the loop body (573-586) does with a line that
\* is not the terminator: sep is the position of its '|'
fetch_info_store(F, io1, sep) ==
  IF sep = -1 THEN [F EXCEPT !.io = io1]
  ELSE IF At(io1.lb, sep + 1) = NUL
  THEN [F EXCEPT !.io = [io1 EXCEPT !.lb = Poke(@, sep, <<NUL>>)]]
  ELSE [F EXCEPT !.io = [io1 EXCEPT !.lb = Poke(@, sep, <<NUL>>)],
                 !.info_labels[F.info_line_count + 1] =
                    StrNCpy(CStr(Poke(io1.lb, sep, <<NUL>>), 0), LABEL_MAX),
                 !.info_values[F.info_line_count + 1] =
                    StrNCpy(CStr(io1.lb, sep + 1), NAME_MAX),
                 !.info_line_count = @ + 1]

\* fetch_info_line is the loop body for the line just read (io1)
RECURSIVE fetch_info_loop(_)
fetch_info_line(F, io1) ==
  IF io1.blocked \/ At(io1.lb, 0) = "."
  THEN [F EXCEPT !.io = io1, !.hung = io1.blocked]
  ELSE fetch_info_loop(fetch_info_store(F, io1, StrChr(io1.lb, 0, "|")))

fetch_info_loop(F) ==
  IF F.info_line_count < MAX_INFO_LINES /\ ~AtEOF(F.io)
  THEN fetch_info_line(F, read_line(F.io))
  ELSE [F EXCEPT !.hung = (F.info_line_count < MAX_INFO_LINES)]

\* The info record with the outcome d of the drain loop, and the result
\* "info_line_count > 0"
fetch_info_drained(F, d) ==
  [F EXCEPT !.io = d.io, !.hung = d.hung,
            !.ok = (~d.hung /\ F.info_line_count > 0)]

fetch_info_drain(F) ==
  IF F.hung THEN F ELSE fetch_info_drained(F, drain_loop(F.io))

\* A fetch_info that does not test the header line for 'E'
fetch_info_header_noerr(F0, io1) ==
  IF io1.blocked THEN [F0 EXCEPT !.io = io1, !.hung = TRUE]
  ELSE fetch_info_drain(fetch_info_loop([F0 EXCEPT !.io = io1,
                                                   !.info_line_count = 0]))

\* fetch_info from the header line (io1) on
fetch_info_header(F0, io1) ==
  IF io1.blocked THEN [F0 EXCEPT !.io = io1, !.hung = TRUE]
  ELSE IF At(io1.lb, 0) = "E" THEN [F0 EXCEPT !.io = io1, !.ok = FALSE]
  ELSE fetch_info_drain(fetch_info_loop([F0 EXCEPT !.io = io1,
                                                   !.info_line_count = 0]))

\* fetch_info after send_command
fetch_info_read(F0) == fetch_info_header(F0, read_line(F0.io))

\* ======================================================================
\* The server: what it may answer to a command
\* ======================================================================
\* A response is described by
\*   hdr   : "ok2" (OK n total), "ok1" (OK n), "ok" (OK), "run" (OK Running),
\*           "greet" (OK c64uploader), "err" (ERR not found), "none"
\*   n, total : the numbers of the header
\*   body  : the body lines, each [k, i]: k = "entry" a complete line for id
\*           i, "long" a complete line whose name has 33 characters, "one"
\*           a line with a single separator, "junk" a line with none,
\*           "empty" (INFO) a label with an empty value, "dot" a complete
\*           line for id i with a '.' in front
\*   term  : the terminator line is sent
\*   close : the peer closes the connection after what it sent
\*   cut   : how the bytes arrive: "whole" in one read, "term" with the last
\*           line in a read of its own, "mid" cut inside the first line

S_OK      == <<"O", "K">>
S_ERR     == <<"E", "R", "R", " ", "n", "o", "t", " ", "f", "o", "u", "n", "d">>
S_RUNNING == <<"O", "K", " ", "R", "u", "n", "n", "i", "n", "g">>
S_GREET   == <<"O", "K", " ", "c", "6", "4", "u", "p", "l", "o", "a", "d", "e", "r">>
S_TAIL    == <<"|", "G", "|", "9", "|", "p">>

RECURSIVE Rep(_, _)
Rep(c, n) == IF n = 0 THEN <<>> ELSE <<c>> \o Rep(c, n - 1)

LongNameLen == 33
LongName == Rep("X", LongNameLen)

EntryName(i) == <<"N">> \o Dec(i)
CatName(i)   == <<"C">> \o Dec(i)

EntryLine(b) ==
  CASE b.k = "entry" -> Dec(b.i) \o <<"|">> \o EntryName(b.i) \o S_TAIL
    [] b.k = "long"  -> Dec(b.i) \o <<"|">> \o LongName \o S_TAIL
    [] b.k = "one"   -> Dec(b.i) \o <<"|">> \o EntryName(b.i)
    [] b.k = "dot"   -> <<".">> \o Dec(b.i) \o <<"|">> \o EntryName(b.i) \o S_TAIL
    [] b.k = "junk"  -> <<"J", "U", "N", "K">>

CatLine(b) ==
  CASE b.k = "entry" -> CatName(b.i) \o <<"|">> \o Dec(b.i + 4)
    [] b.k = "dot"   -> <<".">> \o CatName(b.i) \o <<"|">> \o Dec(b.i + 4)
    [] b.k = "junk"  -> <<"J", "U", "N", "K">>

InfoLine(b) ==
  CASE b.k = "entry" -> <<"L">> \o Dec(b.i) \o <<"|", "V">> \o Dec(b.i)
    [] b.k = "empty" -> <<"L">> \o Dec(b.i) \o <<"|">>
    [] b.k = "dot"   -> <<".", "L">> \o Dec(b.i) \o <<"|", "V">> \o Dec(b.i)
    [] b.k = "junk"  -> <<"J", "U", "N", "K">>

HeaderLine(r) ==
  CASE r.hdr = "ok2"   -> S_OK \o <<" ">> \o Dec(r.n) \o <<" ">> \o Dec(r.total)
    [] r.hdr = "ok1"   -> S_OK \o <<" ">> \o Dec(r.n)
    [] r.hdr = "ok"    -> S_OK
    [] r.hdr = "run"   -> S_RUNNING
    [] r.hdr = "greet" -> S_GREET
    [] r.hdr = "err"   -> S_ERR

BodyLine(r, b) ==
  IF r.kind = "CATS" THEN CatLine(b)
  ELSE IF r.kind = "INFO" THEN InfoLine(b)
  ELSE EntryLine(b)

\* The lines of a response, in order
ResponseLines(r) ==
  (IF r.hdr = "none" THEN <<>> ELSE <<HeaderLine(r)>>)
  \o [j \in 1..Len(r.body) |-> BodyLine(r, r.body[j])]
  \o (IF r.term THEN << <<".">> >> ELSE <<>>)

RECURSIVE JoinLines(_)
JoinLines(ls) == IF ls = <<>> THEN <<>> ELSE Head(ls) \o <<LF>> \o JoinLines(Tail(ls))

\* The reads that deliver a response
ResponseChunks(r) ==
  LET ls   == ResponseLines(r)
      text == JoinLines(ls)
      last == Len(ls[Len(ls)]) + 1
      at   == IF r.cut = "term" THEN Len(text) - last ELSE 2
  IN  IF ls = <<>> THEN <<>>
      ELSE IF r.cut = "whole" \/ at < 1 \/ at >= Len(text) THEN <<Chunk(text)>>
      ELSE <<Chunk(SubSeq(text, 1, at)), Chunk(SubSeq(text, at + 1, Len(text)))>>

FirstK(k) == [j \in 1..k |-> [k |-> "entry", i |-> j]]

R(kind, hdr, n, total, body, term, close, cut) ==
  [kind |-> kind, hdr |-> hdr, n |-> n, total |-> total, body |-> body,
   term |-> term, close |-> close, cut |-> cut]

\* No response at all (QUIT, or before any command)
NoResponse == R("NONE", "none", 0, 0, <<>>, FALSE, FALSE, "whole")

B(k, i) == [k |-> k, i |-> i]

\* LIST, SEARCH and ADVSEARCH share one response format.  The everyday
\* answers of a server: an empty page, a short page of a longer result
CommonEntryResponses(kind) ==
  { R(kind, "ok2", 0, 0, <<>>, TRUE, FALSE, "whole"),
    R(kind, "ok2", 2, 41, FirstK(2), TRUE, FALSE, "term") }

\* The answers the model lets a server give MaxRare times in a session
RareEntryResponses(kind) ==
  { R(kind, "ok2", 1, 1, FirstK(1), TRUE, FALSE, "mid"),
    R(kind, "ok2", 20, 41, FirstK(20), TRUE, FALSE, "whole"),
    \* more or fewer lines than announced, more than the client keeps
    R(kind, "ok2", 21, 21, FirstK(21), TRUE, FALSE, "whole"),
    R(kind, "ok2", 1, 2, FirstK(2), TRUE, FALSE, "whole"),
    R(kind, "ok2", 3, 3, FirstK(2), TRUE, FALSE, "whole"),
    \* lines that are not complete entries, a name longer than the client keeps
    R(kind, "ok2", 4, 4,
      <<B("entry", 1), B("junk", 0), B("one", 7), B("long", 9)>>,
      TRUE, FALSE, "whole"),
    \* a line that starts with '.' among the entries
    R(kind, "ok2", 3, 3, <<B("entry", 1), B("dot", 2), B("entry", 3)>>,
      TRUE, FALSE, "whole"),
    R(kind, "ok2", 3, 3, <<B("entry", 1), B("dot", 2), B("entry", 3)>>,
      TRUE, FALSE, "term"),
    \* headers that are not "OK n total"
    R(kind, "ok1", 2, 0, FirstK(2), TRUE, FALSE, "whole"),
    R(kind, "ok2", 3, 1, FirstK(3), TRUE, FALSE, "whole"),
    R(kind, "err", 0, 0, <<>>, FALSE, FALSE, "whole"),
    \* the peer closes: before the header, after it, before the terminator
    R(kind, "none", 0, 0, <<>>, FALSE, TRUE, "whole"),
    R(kind, "ok2", 2, 2, <<>>, FALSE, TRUE, "whole"),
    R(kind, "ok2", 2, 2, FirstK(2), FALSE, TRUE, "whole") }

EntryResponses(kind) == CommonEntryResponses(kind) \cup RareEntryResponses(kind)

CommonCatsResponses ==
  { R("CATS", "ok1", 2, 0, FirstK(2), TRUE, FALSE, "whole") }

RareCatsResponses ==
  { R("CATS", "ok1", 0, 0, <<>>, TRUE, FALSE, "whole"),
    R("CATS", "ok1", 2, 0, FirstK(2), TRUE, FALSE, "term"),
    R("CATS", "ok1", 3, 0, <<B("entry", 1), B("junk", 0), B("entry", 2)>>,
      TRUE, FALSE, "whole"),
    R("CATS", "ok1", 3, 0, <<B("entry", 1), B("dot", 2), B("entry", 3)>>,
      TRUE, FALSE, "whole"),
    R("CATS", "ok1", 20, 0, FirstK(20), TRUE, FALSE, "whole"),
    R("CATS", "ok1", 20, 0, FirstK(20), TRUE, FALSE, "term"),
    R("CATS", "ok1", 21, 0, FirstK(21), TRUE, FALSE, "whole"),
    R("CATS", "err", 0, 0, <<>>, FALSE, FALSE, "whole"),
    R("CATS", "none", 0, 0, <<>>, FALSE, TRUE, "whole"),
    R("CATS", "ok1", 2, 0, FirstK(1), FALSE, TRUE, "whole") }

CatsResponses == CommonCatsResponses \cup RareCatsResponses

CommonInfoResponses ==
  { R("INFO", "ok", 0, 0, FirstK(2), TRUE, FALSE, "whole") }

RareInfoResponses ==
  { R("INFO", "ok", 0, 0, <<B("entry", 1), B("empty", 2), B("junk", 0), B("entry", 3)>>,
      TRUE, FALSE, "term"),
    R("INFO", "ok", 0, 0, <<B("empty", 1), B("empty", 2)>>, TRUE, FALSE, "whole"),
    R("INFO", "ok", 0, 0, FirstK(13), TRUE, FALSE, "whole"),
    R("INFO", "ok", 0, 0, <<B("entry", 1), B("dot", 2), B("entry", 3)>>,
      TRUE, FALSE, "term"),
    R("INFO", "err", 0, 0, <<>>, FALSE, FALSE, "whole"),
    R("INFO", "none", 0, 0, <<>>, FALSE, TRUE, "whole"),
    R("INFO", "ok", 0, 0, FirstK(1), FALSE, TRUE, "whole") }

InfoResponses == CommonInfoResponses \cup RareInfoResponses

CommonRunResponses ==
  { R("RUN", "run", 0, 0, <<>>, FALSE, FALSE, "whole") }

RareRunResponses ==
  { R("RUN", "err", 0, 0, <<>>, FALSE, FALSE, "whole"),
    R("RUN", "none", 0, 0, <<>>, FALSE, TRUE, "whole") }

RunResponses == CommonRunResponses \cup RareRunResponses

GreetResponses ==
  { R("GREET", "greet", 0, 0, <<>>, FALSE, FALSE, "whole"),
    R("GREET", "none", 0, 0, <<>>, FALSE, TRUE, "whole") }

CommonResponses ==
  CommonEntryResponses("LIST") \cup CommonEntryResponses("SEARCH")
    \cup CommonEntryResponses("ADVSEARCH") \cup CommonCatsResponses
    \cup CommonInfoResponses \cup CommonRunResponses

\* 1 for a rare response, 0 for a common one
Rarity(d) == IF d \in CommonResponses THEN 0 ELSE 1

\* Each response with the reads that deliver it and its rarity
Delivered(S) ==
  {[d |-> r, chunks |-> ResponseChunks(r), rare |-> Rarity(r)] : r \in S}

ListServer   == Delivered(EntryResponses("LIST"))
SearchServer == Delivered(EntryResponses("SEARCH"))
AdvServer    == Delivered(EntryResponses("ADVSEARCH"))
CatsServer   == Delivered(CatsResponses)
InfoServer   == Delivered(InfoResponses)
RunServer    == Delivered(RunResponses)
GreetServer  == Delivered(GreetResponses)

\* ======================================================================
\* State
\* ======================================================================

VARIABLES
  pc,               \* where main() is: "boot", "connect", "load", "nav",
                    \* "hung" (inside an operation that never returns),
                    \* "exit" (main has returned)
  socket_id, connected, uci_status,
  item_names, item_ids, item_count, total_count, cursor, offset,
  current_page, current_category,
  search_query, search_category,
  adv_cursor, adv_editing, adv_edit_pos,
  adv_category, adv_title, adv_group, adv_type, adv_top200,
  settings_cursor, settings_edit_pos, settings_editing, server_host,
  line_buffer,
  info_return_page, info_labels, info_values, info_line_count,
  uci_data, uci_data_index, uci_data_len,
  net, peer_closed, \* the socket: reads to come, and whether the peer closed
  \* bookkeeping about the step just taken, when it talked to the server
  key,              \* the key it handled ("" when it was no key)
  sent,             \* the command lines it sent, in order
  reads,            \* the number of uci_socket_read calls it made
  rsp,              \* the response the server gave to its command
  insync,           \* nothing was pending on the socket or in uci_data when
                    \* it sent its command
  hdr_lb,           \* line_buffer when it parsed the response header
  prev,             \* [item_count, total_count, offset, cursor, page] before it
  rare,             \* the number of rare responses the server has given
  cmds,             \* the number of catalog commands sent, up to MaxCommands
  user,             \* what the user of this session does from the Categories
                    \* page: "browse", "search" or "settings"
  sock_log,         \* the socket calls of the session, in order: "connect"
                    \* (uci_tcp_connect), "io" (the reads and writes of
                    \* commands and responses, one entry for a run of them),
                    \* "quit" (the write of QUIT), "close" (uci_socket_close)
  cmd_out,          \* the command line built by the command builders
  \* ultimate.c below the socket calls: the command channel
  uci_target,       \* the target id uci_settarget stored
  uci_pc,           \* where the driver is inside a library call
  call,             \* the library call in progress
  chan,             \* the controller's side of the channel registers
  wr,               \* the bytes written to the command data register since
                    \* the last push
  unote,            \* bookkeeping about the channel
  rnote             \* bookkeeping about uci_tcp_nextchar: the reads fed to
                    \* it and the characters it returned; about
                    \* uci_tcp_nextline: the lines it returned, and a twin
                    \* reader with its lines; the result page before a search

connVars   == <<socket_id, connected, uci_status>>
listVars   == <<item_names, item_ids, item_count, total_count, offset>>
searchVars == <<search_query, search_category>>
advVars    == <<adv_cursor, adv_editing, adv_edit_pos,
                adv_category, adv_title, adv_group, adv_type, adv_top200>>
setVars    == <<settings_cursor, settings_edit_pos, settings_editing, server_host>>
infoVars   == <<info_return_page, info_labels, info_values, info_line_count>>
ioVars     == <<uci_data, uci_data_index, uci_data_len, net, peer_closed, line_buffer>>
noteVars   == <<key, sent, reads, rsp, insync, hdr_lb, prev, rare, cmds, user,
                sock_log>>

auxVars    == <<uci_target, uci_pc, call, chan, wr, unote, rnote>>

vars == <<pc, connVars, listVars, cursor, current_page, current_category,
          searchVars, advVars, setVars, infoVars, ioVars, noteVars, cmd_out, auxVars>>

search_query_len == Len(search_query)

ADV_FIELD_CAT    == 0
ADV_FIELD_TITLE  == 1
ADV_FIELD_GROUP  == 2
ADV_FIELD_TYPE   == 3
ADV_FIELD_TOP200 == 4
ADV_FIELD_SEARCH == 5
ADV_FIELD_COUNT  == 6

DEFAULT_SERVER_HOST ==
  <<"1", "9", "2", ".", "1", "6", "8", ".", "2", ".", "6", "6">>

\* The static initialisers of main.c and ultimate.c
InitStatics ==
  /\ socket_id = 0 /\ connected = FALSE /\ uci_status = <<>>
  /\ item_names = [i \in 1..MAX_ITEMS |-> <<>>]
  /\ item_ids = [i \in 1..MAX_ITEMS |-> 0]
  /\ item_count = 0 /\ total_count = 0 /\ cursor = 0 /\ offset = 0
  /\ current_page = PAGE_CATS /\ current_category = <<>>
  /\ search_query = <<>> /\ search_category = 0
  /\ adv_cursor = 0 /\ adv_editing = FALSE /\ adv_edit_pos = 0
  /\ adv_category = 0 /\ adv_title = <<>> /\ adv_group = <<>>
  /\ adv_type = 0 /\ adv_top200 = FALSE
  /\ settings_cursor = 0 /\ settings_edit_pos = 0 /\ settings_editing = FALSE
  /\ server_host = DEFAULT_SERVER_HOST
  /\ line_buffer = <<>>
  /\ info_return_page = PAGE_CATS
  /\ info_labels = [i \in 1..MAX_INFO_LINES |-> <<>>]
  /\ info_values = [i \in 1..MAX_INFO_LINES |-> <<>>]
  /\ info_line_count = 0
  /\ uci_data = <<>> /\ uci_data_index = 0 /\ uci_data_len = 0

Before == [item_count |-> item_count, total_count |-> total_count,
           offset |-> offset, cursor |-> cursor, page |-> current_page]

\* The command channel before the first library call: the controller idle,
\* no error, nothing to acknowledge
UCI_TARGET_DOS1    == 1
UCI_TARGET_NETWORK == 3

NoCall == [fn |-> "none", target |-> 0, bytes |-> <<>>, data |-> FALSE,
           status |-> FALSE, accept |-> FALSE, restore |-> FALSE, saved |-> 0]
\* state: the state bits; error, acc: the error and data-accept bits; dav,
\* sav: data and status available; acked: acknowledged, not yet idle
IdleChan == [state |-> "idle", error |-> FALSE, acc |-> FALSE, acked |-> FALSE,
             dav |-> FALSE, sav |-> FALSE]
\* log: what uci_sendcommand has done in this call ("idle" seen, "frame"
\* written, "push", "clr"); open: a command was taken and its accept has
\* not completed; clash: a push was written while open; errs: the errors
\* the controller has raised; accepted: some accept has completed
\* ctrl: the value uci_accept wrote to the control register last
NoUNote == [log |-> <<>>, open |-> FALSE, clash |-> FALSE, errs |-> 0,
            accepted |-> FALSE, ctrl |-> 0]
NoRNote == [fed |-> <<>>, got |-> <<>>, lines |-> <<>>, writes |-> 0,
            twin |-> <<>>, tlines |-> <<>>, page |-> <<>>, lost |-> <<>>]

InitChannel ==
  /\ uci_target = UCI_TARGET_DOS1
  /\ uci_pc = "caller" /\ call = NoCall
  /\ chan = IdleChan /\ wr = <<>>
  /\ unote = NoUNote

InitNotes ==
  /\ InitChannel /\ rnote = NoRNote
  /\ key = "" /\ sent = <<>> /\ reads = 0 /\ rsp = NoResponse
  /\ insync = TRUE /\ hdr_lb = <<>>
  /\ prev = [item_count |-> 0, total_count |-> 0, offset |-> 0, cursor |-> 0,
             page |-> PAGE_CATS]
  /\ rare = 0 /\ cmds = 0
  /\ cmd_out = <<>>

Users == {"browse", "search", "settings"}

Init ==
  /\ pc = "boot"
  /\ user \in Users
  /\ InitStatics
  /\ net = <<>> /\ peer_closed = FALSE
  /\ InitNotes
  /\ sock_log = <<>>

\* ----------------------------------------------------------------------
\* Records the operations work on, taken from and put back into the state
\* ----------------------------------------------------------------------

IoRec ==
  [data |-> uci_data, index |-> uci_data_index, len |-> uci_data_len,
   net |-> net, closed |-> peer_closed, lb |-> line_buffer,
   reads |-> 0, sent |-> <<>>, blocked |-> FALSE]

SetIo(io) ==
  /\ uci_data' = io.data /\ uci_data_index' = io.index /\ uci_data_len' = io.len
  /\ net' = io.net /\ peer_closed' = io.closed /\ line_buffer' = io.lb
  /\ reads' = io.reads /\ sent' = io.sent

ListRec(io) ==
  [io |-> io, hung |-> FALSE, item_count |-> item_count,
   total_count |-> total_count, offset |-> offset,
   item_ids |-> item_ids, item_names |-> item_names, hdr |-> <<>>]

SetList(L) ==
  /\ item_names' = L.item_names /\ item_ids' = L.item_ids
  /\ item_count' = L.item_count /\ total_count' = L.total_count
  /\ offset' = L.offset /\ hdr_lb' = L.hdr
  /\ SetIo(L.io)

InfoRec(io) ==
  [io |-> io, hung |-> FALSE, ok |-> FALSE, info_labels |-> info_labels,
   info_values |-> info_values, info_line_count |-> info_line_count]

\* Something is still unread when a command is about to be sent
Pending == uci_data_index < uci_data_len \/ net # <<>>

\* Bookkeeping of a step that talks to the server / that does not
\* The sessions of the model: a server gives at most MaxRare rare responses,
\* and those to the first RareWindow commands; a session in which it gave one
\* ends after MaxCommands commands
MaxRare     == 1
RareWindow  == 3
MaxCommands == 3
Offered(S) ==
  {r \in S : IF r.rare = 1 THEN rare < MaxRare /\ cmds < RareWindow
                           ELSE rare = 0 \/ cmds < MaxCommands}
\* What the server gave in answer: nothing once it has closed the connection
Given(d) ==
  IF peer_closed THEN R(d.kind, "none", 0, 0, <<>>, FALSE, TRUE, "whole") ELSE d
\* The socket log after the reads and writes of a command
SockIo ==
  IF sock_log # <<>> /\ sock_log[Len(sock_log)] = "io" THEN sock_log
  ELSE Append(sock_log, "io")
NoteCommand(k, r) ==
  /\ key' = k /\ rsp' = Given(r.d) /\ insync' = ~Pending /\ prev' = Before
  /\ rare' = rare + r.rare /\ user' = user
  /\ sock_log' = SockIo
  /\ cmds' = IF cmds < MaxCommands THEN cmds + 1 ELSE cmds
\* A step that sends nothing to the server leaves no notes
NoPrev == [item_count |-> 0, total_count |-> 0, offset |-> 0, cursor |-> 0,
           page |-> PAGE_CATS]
NoteLocal ==
  /\ key' = "" /\ rsp' = NoResponse /\ insync' = TRUE /\ prev' = NoPrev
  /\ hdr_lb' = <<>> /\ sent' = <<>> /\ reads' = 0
  /\ rare' = rare /\ cmds' = cmds /\ user' = user
  /\ sock_log' = sock_log

\* A send_command that writes the command line a second time
send_command_twice(io, conn, cmd) ==
  IF ~conn THEN io
  ELSE [uci_socket_write(uci_socket_write(io)) EXCEPT
          !.sent = Append(Append(@, cmd), cmd)]

\* send_command: nothing when not connected, else the command line and the
\* newline, each with uci_socket_write
send_command(io, conn, cmd) ==
  IF ~conn THEN io
  ELSE [uci_socket_write(uci_socket_write(io)) EXCEPT !.sent = Append(@, cmd)]

\* The server's answer arrives on the socket (nothing once it has closed)
Answer(io, r) ==
  IF io.closed THEN io
  ELSE [io EXCEPT !.net = @ \o r.chunks, !.closed = r.d.close]

\* The model does not let unread answers pile up without limit
MaxBacklog == 1
Backlog == Len(net) <= MaxBacklog

\* ======================================================================
\* main.c: the command lines
\* ======================================================================

S_CATS      == <<"C", "A", "T", "S">>
S_QUIT      == <<"Q", "U", "I", "T">>
S_LIST      == <<"L", "I", "S", "T">>
S_SEARCH    == <<"S", "E", "A", "R", "C", "H">>
S_ADVSEARCH == <<"A", "D", "V", "S", "E", "A", "R", "C", "H">>
S_INFO      == <<"I", "N", "F", "O">>
S_RUN       == <<"R", "U", "N">>
S_20        == <<"2", "0">>
SP          == <<" ">>

\* search_cat_names[], adv_type_names[]
search_cat_names(i) ==
  CASE i = 0 -> <<"A", "l", "l">>
    [] i = 1 -> <<"G", "a", "m", "e", "s">>
    [] i = 2 -> <<"D", "e", "m", "o", "s">>
    [] i = 3 -> <<"M", "u", "s", "i", "c">>

adv_type_names(i) ==
  CASE i = 0 -> <<"A", "n", "y">>
    [] i = 1 -> <<"p", "r", "g">>
    [] i = 2 -> <<"d", "6", "4">>
    [] i = 3 -> <<"c", "r", "t">>
    [] i = 4 -> <<"s", "i", "d">>

\* load_entries: strcpy "LIST ", strcat category, " ", the offset, " 20"
list_cmd(category, start) ==
  S_LIST \o SP \o category \o SP \o Dec(start) \o SP \o S_20

\* A do_search that uses the format with the category name for every filter
search_cmd_named(query, start, cat) ==
  S_SEARCH \o SP \o Dec(start) \o SP \o S_20 \o SP
    \o search_cat_names(cat) \o SP \o query

\* do_search: the two sprintf formats
search_cmd(query, start, cat) ==
  IF cat = 0
  THEN S_SEARCH \o SP \o Dec(start) \o SP \o S_20 \o SP \o query
  ELSE S_SEARCH \o SP \o Dec(start) \o SP \o S_20 \o SP
         \o search_cat_names(cat) \o SP \o query

\* do_adv_search: sprintf, then one strcat pair per filter that is set
adv_search_cmd(start, cat, title, group, type, top200) ==
  LET c0 == S_ADVSEARCH \o SP \o Dec(start) \o SP \o S_20
      c1 == IF cat > 0
            THEN c0 \o <<" ", "c", "a", "t", "=">> \o search_cat_names(cat)
            ELSE c0
      c2 == IF At(title, 0) # NUL
            THEN c1 \o <<" ", "t", "i", "t", "l", "e", "=">> \o title
            ELSE c1
      c3 == IF At(group, 0) # NUL
            THEN c2 \o <<" ", "g", "r", "o", "u", "p", "=">> \o group
            ELSE c2
      c4 == IF type > 0
            THEN c3 \o <<" ", "t", "y", "p", "e", "=">> \o adv_type_names(type)
            ELSE c3
  IN  IF top200
      THEN c4 \o <<" ", "t", "o", "p", "2", "0", "0", "=", "1">>
      ELSE c4

\* The command line as send_command finds it in a local array "char cmd[size]".
\* A line that does not fit with its NUL was written past the end of the
\* array: whether the bytes past the end are still there when the line is
\* sent is undefined, the line is either whole or stops where the array ends
CMD_SEARCH_SIZE == 64
CMD_ADV_SIZE    == 96

cmd_buffer(cmd, size) ==
  IF Len(cmd) < size THEN {cmd} ELSE {cmd, SubSeq(cmd, 1, size - 1)}

\* fetch_info, run_entry: sprintf("INFO %d"), sprintf("RUN %d")
info_cmd(id) == S_INFO \o SP \o Dec(id)
run_cmd(id)  == S_RUN \o SP \o Dec(id)

\* ======================================================================
\* main(): start-up
\* ======================================================================

\* uci_success(): the status starts with "00"
uci_success(st) == At(st, 0) = "0" /\ At(st, 1) = "0"

StatusValues == { <<"0", "0", ",", "O", "K">>, <<"0", "1">>, <<"8", "4">>, <<>> }
SocketIds == {0, 1}
\* main only hands the id back to the library; on success the model lets the
\* controller return the id that looks like a failure
ConnectOutcomes ==
  {<<st, sid>> : st \in {x \in StatusValues : ~uci_success(x)}, sid \in SocketIds}
    \cup {<<st, 0>> : st \in {x \in StatusValues : uci_success(x)}}

\* main up to the connect: uci_identify decides whether the program goes on
Boot ==
  /\ pc = "boot"
  /\ \E st \in {<<"0", "0">>, <<"8", "1">>} :
       /\ uci_status' = st
       /\ pc' = IF uci_success(st) THEN "connect" ELSE "exit"
  /\ NoteLocal
  /\ UNCHANGED <<socket_id, connected, listVars, cursor, current_page,
                 current_category, searchVars, advVars, setVars, infoVars,
                 ioVars, cmd_out, auxVars>>

\* A connect_to_server that goes by the socket id instead of the status
connect_result_by_id(st, sid, g, io0, io1) ==
  /\ socket_id' = sid
  /\ uci_status' = st
  /\ IF sid = 0
     THEN /\ connected' = FALSE
          /\ pc' = "exit"
          /\ SetIo(io0)
          /\ rsp' = NoResponse
          /\ sock_log' = Append(sock_log, "connect")
     ELSE /\ connected' = TRUE
          /\ pc' = IF io1.blocked THEN "hung" ELSE "load"
          /\ SetIo(io1)
          /\ rsp' = g.d
          /\ sock_log' = sock_log \o <<"connect", "io">>
  /\ key' = "" /\ insync' = TRUE /\ prev' = Before /\ hdr_lb' = <<>>
  /\ rare' = rare /\ cmds' = cmds /\ user' = user

\* connect_to_server: uci_tcp_connect stores the socket id and resets the
\* reader (io0); on "00" the greeting line is read (io1)
connect_result(st, sid, g, io0, io1) ==
  /\ socket_id' = sid
  /\ uci_status' = st
  /\ IF ~uci_success(st)
     THEN /\ connected' = FALSE
          /\ pc' = "exit"
          /\ SetIo(io0)
          /\ rsp' = NoResponse
          /\ sock_log' = Append(sock_log, "connect")
     ELSE /\ connected' = TRUE
          /\ pc' = IF io1.blocked THEN "hung" ELSE "load"
          /\ SetIo(io1)
          /\ rsp' = g.d
          /\ sock_log' = sock_log \o <<"connect", "io">>
  /\ key' = "" /\ insync' = TRUE /\ prev' = Before /\ hdr_lb' = <<>>
  /\ rare' = rare /\ cmds' = cmds /\ user' = user

uci_connect(io) == [io EXCEPT !.data = <<>>, !.index = 0, !.len = 0]

connect_to_server(st, sid, g) ==
  connect_result(st, sid, g, uci_connect(IoRec),
                 uci_tcp_nextline(Answer(uci_connect(IoRec), g)).io)

Connect ==
  /\ pc = "connect"
  /\ \E o \in ConnectOutcomes, g \in GreetServer :
       connect_to_server(o[1], o[2], g)
  /\ UNCHANGED <<listVars, cursor, current_page, current_category,
                 searchVars, advVars, setVars, infoVars, cmd_out, auxVars>>

\* What a list operation leaves in the state: L is the list record it
\* returned with or hung with, cur and page the cursor and the page it sets
list_result(k, r, L, cur, page) ==
  /\ SetList(L)
  /\ cursor' = IF L.hung THEN cursor ELSE cur
  /\ current_page' = IF L.hung THEN current_page ELSE page
  /\ pc' = IF L.hung THEN "hung" ELSE "nav"
  /\ NoteCommand(k, r)

\* The list record after cmd was sent and the server answered r
Sent(cmd, r) == ListRec(Answer(send_command(IoRec, connected, cmd), r))

\* load_categories() with the server answering r; k is the key handled
load_categories(k, r) ==
  list_result(k, r, load_categories_read(Sent(S_CATS, r)), 0, PAGE_CATS)

\* main: the first load_categories, before the loop
LoadFirst ==
  /\ pc = "load"
  /\ \E r \in Offered(CatsServer) : load_categories("", r)
  /\ UNCHANGED <<connVars, current_category, searchVars, advVars, setVars,
                 infoVars, cmd_out, auxVars>>

\* ======================================================================
\* get_key: the keys it can return in the current state
\* ======================================================================

K_RETURN == "\r"
K_DEL    == "DEL"      \* the value 8
K_TAB    == "\t"

\* The characters the model types; MaxText and the host bounds keep the
\* edited texts short
LetterKeys == {"A"}
DigitKeys  == {"6"}
MaxText    == 1
MaxFilters == 1
MinHostLen == 11
MaxHostLen == 13

get_key ==
  {K_RETURN, K_DEL}
  \cup
  CASE current_page = PAGE_CATS -> {"q", "c", "u", "d", "/", ">"}
    [] current_page = PAGE_LIST -> {"u", "d", "n", "p", "i"}
    [] current_page = PAGE_SEARCH ->
         {K_TAB} \cup (IF item_count > 0 THEN {"u", "d", "i"} ELSE {})
                 \cup LetterKeys \cup DigitKeys
    [] current_page = PAGE_SETTINGS ->
         IF ~settings_editing THEN {"u", "d"} ELSE DigitKeys
    [] current_page = PAGE_ADV_SEARCH ->
         IF ~adv_editing THEN {"u", "d", " "} ELSE LetterKeys
    [] current_page = PAGE_ADV_RESULTS -> {"u", "d", "n", "p", "i"}
    [] current_page = PAGE_INFO -> {"x"}

\* The keys the user of this session presses: on the Categories page only
\* those that lead to the pages this user works with
UserKeys ==
  IF current_page # PAGE_CATS THEN get_key
  ELSE CASE user = "browse"   -> {"u", "d", ">", K_RETURN, K_DEL, "q"}
         [] user = "search"   -> {"/", "q"}
         [] user = "settings" -> {"c", "q"}

Pressed(k) == pc = "nav" /\ k \in get_key \cap UserKeys

\* ======================================================================
\* The operations as main's handlers call them
\* ======================================================================

\* load_entries(category, start)
load_entries(k, category, start, r) ==
  list_result(k, r, entries_read(Sent(list_cmd(category, start), r), start),
              0, PAGE_LIST)

\* do_search(search_query, start), with search_category = cat
do_search(k, query, cat, start, r) ==
  \E cmd \in cmd_buffer(search_cmd(query, start, cat), CMD_SEARCH_SIZE) :
    list_result(k, r, entries_read(Sent(cmd, r), start), 0, PAGE_SEARCH)

\* What the caller of do_adv_search does with the n items it loaded.  The
\* callers are "up" (case 'u': cursor to the last line shown), "page" (case
\* 'd', 'n', 'p': cursor 0 as do_adv_search left it) and "search" (case
\* '\r': to the results page if there are any)
\* A caller that leaves the cursor at the top after every fetch
adv_cursor_top(caller, n) == 0

\* A caller that leaves the cursor where it was before the fetch
adv_cursor_kept(caller, n) == cursor

adv_cursor_after(caller, n) ==
  IF caller = "up" THEN (IF n - 1 > 18 THEN 18 ELSE n - 1) ELSE 0

\* A search that shows the results page whether or not there are results
adv_page_always(caller, n) ==
  IF caller = "search" THEN PAGE_ADV_RESULTS ELSE current_page

adv_page_after(caller, n) ==
  IF caller = "search" /\ n > 0 THEN PAGE_ADV_RESULTS ELSE current_page

\* do_adv_search(start), then what the caller does with the result
adv_result(k, r, L, caller) ==
  list_result(k, r, L, adv_cursor_after(caller, L.item_count),
              adv_page_after(caller, L.item_count))

do_adv_search(k, start, r, caller) ==
  \E cmd \in cmd_buffer(adv_search_cmd(start, adv_category, adv_title,
                                        adv_group, adv_type, adv_top200),
                        CMD_ADV_SIZE) :
    adv_result(k, r, entries_read(Sent(cmd, r), start), caller)

\* run_entry(id)
run_result(k, r, io1) ==
  /\ SetIo(io1)
  /\ pc' = IF io1.blocked THEN "hung" ELSE "nav"
  /\ hdr_lb' = io1.lb
  /\ NoteCommand(k, r)

run_entry(k, id, r) ==
  run_result(k, r, run_entry_read(Answer(send_command(IoRec, connected, run_cmd(id)), r)))

\* fetch_info(id) and the caller's "if (fetch_info(..)) current_page = PAGE_INFO"
info_result(k, r, F) ==
  /\ SetIo(F.io)
  /\ info_labels' = F.info_labels /\ info_values' = F.info_values
  /\ info_line_count' = F.info_line_count
  /\ info_return_page' = current_page
  /\ current_page' = IF ~F.hung /\ F.ok THEN PAGE_INFO ELSE current_page
  /\ pc' = IF F.hung THEN "hung" ELSE "nav"
  /\ hdr_lb' = <<>>
  /\ NoteCommand(k, r)

fetch_info(k, id, r) ==
  info_result(k, r, fetch_info_read(
                      InfoRec(Answer(send_command(IoRec, connected, info_cmd(id)), r))))

\* A disconnect_from_server that closes the socket before it writes QUIT
disconnect_close_first ==
  IF connected
  THEN /\ SetIo([uci_socket_write(IoRec) EXCEPT !.sent = <<S_QUIT>>])
       /\ connected' = FALSE
       /\ sock_log' = sock_log \o <<"close", "quit">>
  ELSE /\ SetIo(IoRec)
       /\ UNCHANGED <<connected, sock_log>>

\* disconnect_from_server: when connected, uci_socket_write of "QUIT\n",
\* then uci_socket_close, then connected = false
disconnect_from_server ==
  IF connected
  THEN /\ SetIo([uci_socket_write(IoRec) EXCEPT !.sent = <<S_QUIT>>])
       /\ connected' = FALSE
       /\ sock_log' = sock_log \o <<"quit", "close">>
  ELSE /\ SetIo(IoRec)
       /\ UNCHANGED <<connected, sock_log>>

\* A previous page that starts the 18 rows of a screen further up
PrevOffset_rows == IF offset - 18 < 0 THEN 0 ELSE offset - 18

PrevOffset == IF offset - 20 < 0 THEN 0 ELSE offset - 20

\* ======================================================================
\* main(): the navigation loop, one action per branch of the switch
\* ======================================================================

LIST_HEIGHT  == 18
ADV_VISIBLE  == 18
PAGE_SIZE    == 20
HOST_MAX     == 30
ADV_TEXT_MAX == 22

Selected == cursor + 1     \* item_ids[cursor], item_names[cursor]

\* case 'q'
Key_q ==
  /\ Pressed("q") /\ current_page = PAGE_CATS
  /\ disconnect_from_server
  /\ pc' = "exit"
  /\ key' = "q" /\ rsp' = NoResponse /\ insync' = ~Pending /\ prev' = Before
  /\ hdr_lb' = <<>> /\ rare' = rare /\ cmds' = cmds /\ user' = user
  /\ UNCHANGED <<socket_id, uci_status, listVars, cursor, current_page,
                 current_category, searchVars, advVars, setVars, infoVars, cmd_out, auxVars>>

\* case 'c'
Key_c ==
  /\ Pressed("c") /\ current_page = PAGE_CATS
  /\ current_page' = PAGE_SETTINGS
  /\ settings_cursor' = 0 /\ settings_editing' = FALSE
  /\ settings_edit_pos' = Len(server_host)
  /\ NoteLocal
  /\ UNCHANGED <<pc, connVars, listVars, cursor, current_category, searchVars,
                 advVars, server_host, infoVars, ioVars, cmd_out, auxVars>>

\* case '/'
Key_slash ==
  /\ Pressed("/") /\ current_page = PAGE_CATS
  /\ current_page' = PAGE_ADV_SEARCH
  /\ adv_cursor' = 0 /\ adv_editing' = FALSE
  /\ adv_category' = 0 /\ adv_title' = <<>> /\ adv_group' = <<>>
  /\ adv_type' = 0 /\ adv_top200' = FALSE
  /\ item_count' = 0 /\ total_count' = 0 /\ cursor' = 0 /\ offset' = 0
  /\ NoteLocal
  /\ UNCHANGED <<pc, connVars, item_names, item_ids, current_category, searchVars,
                 adv_edit_pos, setVars, infoVars, ioVars, cmd_out, auxVars>>

\* ---- case 'u' ----
G_u_settings == current_page = PAGE_SETTINGS /\ settings_cursor > 0
G_u_form     == current_page = PAGE_ADV_SEARCH /\ adv_cursor > 0
G_u_results  == current_page = PAGE_ADV_RESULTS /\ cursor > 0
G_u_fetch    == current_page = PAGE_ADV_RESULTS /\ ~(cursor > 0) /\ offset > 0
G_u_other    == /\ current_page \notin {PAGE_SETTINGS, PAGE_ADV_SEARCH, PAGE_ADV_RESULTS}
                /\ cursor > 0

Key_u_settings ==
  /\ Pressed("u") /\ G_u_settings
  /\ settings_cursor' = settings_cursor - 1
  /\ NoteLocal
  /\ UNCHANGED <<pc, connVars, listVars, cursor, current_page, current_category,
                 searchVars, advVars, settings_edit_pos, settings_editing,
                 server_host, infoVars, ioVars, cmd_out, auxVars>>

Key_u_form ==
  /\ Pressed("u") /\ G_u_form
  /\ adv_cursor' = adv_cursor - 1
  /\ NoteLocal
  /\ UNCHANGED <<pc, connVars, listVars, cursor, current_page, current_category,
                 searchVars, adv_editing, adv_edit_pos, adv_category, adv_title,
                 adv_group, adv_type, adv_top200, setVars, infoVars, ioVars, cmd_out, auxVars>>

Key_u_cursor ==
  /\ Pressed("u") /\ (G_u_results \/ G_u_other)
  /\ cursor' = cursor - 1
  /\ NoteLocal
  /\ UNCHANGED <<pc, connVars, listVars, current_page, current_category,
                 searchVars, advVars, setVars, infoVars, ioVars, cmd_out, auxVars>>

Key_u_fetch ==
  /\ Pressed("u") /\ G_u_fetch /\ Backlog
  /\ \E r \in Offered(AdvServer) : do_adv_search("u", PrevOffset, r, "up")
  /\ UNCHANGED <<connVars, current_category, searchVars, advVars, setVars,
                 infoVars, cmd_out, auxVars>>

\* ---- case 'd' ----
G_d_settings == current_page = PAGE_SETTINGS /\ settings_cursor < 1
G_d_form     == current_page = PAGE_ADV_SEARCH /\ adv_cursor < ADV_FIELD_COUNT - 1
G_d_results  == /\ current_page = PAGE_ADV_RESULTS
                /\ cursor < item_count - 1 /\ cursor < ADV_VISIBLE
G_d_fetch    == /\ current_page = PAGE_ADV_RESULTS
                /\ ~(cursor < item_count - 1 /\ cursor < ADV_VISIBLE)
                /\ offset + item_count < total_count
G_d_other    == /\ current_page \notin {PAGE_SETTINGS, PAGE_ADV_SEARCH, PAGE_ADV_RESULTS}
                /\ cursor < item_count - 1

Key_d_settings ==
  /\ Pressed("d") /\ G_d_settings
  /\ settings_cursor' = settings_cursor + 1
  /\ NoteLocal
  /\ UNCHANGED <<pc, connVars, listVars, cursor, current_page, current_category,
                 searchVars, advVars, settings_edit_pos, settings_editing,
                 server_host, infoVars, ioVars, cmd_out, auxVars>>

Key_d_form ==
  /\ Pressed("d") /\ G_d_form
  /\ adv_cursor' = adv_cursor + 1
  /\ NoteLocal
  /\ UNCHANGED <<pc, connVars, listVars, cursor, current_page, current_category,
                 searchVars, adv_editing, adv_edit_pos, adv_category, adv_title,
                 adv_group, adv_type, adv_top200, setVars, infoVars, ioVars, cmd_out, auxVars>>

Key_d_cursor ==
  /\ Pressed("d") /\ (G_d_results \/ G_d_other)
  /\ cursor' = cursor + 1
  /\ NoteLocal
  /\ UNCHANGED <<pc, connVars, listVars, current_page, current_category,
                 searchVars, advVars, setVars, infoVars, ioVars, cmd_out, auxVars>>

Key_d_fetch ==
  /\ Pressed("d") /\ G_d_fetch /\ Backlog
  /\ \E r \in Offered(AdvServer) :
       do_adv_search("d", offset + PAGE_SIZE, r, "page")
  /\ UNCHANGED <<connVars, current_category, searchVars, advVars, setVars,
                 infoVars, cmd_out, auxVars>>

\* ---- case ' ' ----
G_space == /\ current_page = PAGE_ADV_SEARCH /\ ~adv_editing
           /\ adv_cursor \in {ADV_FIELD_CAT, ADV_FIELD_TYPE, ADV_FIELD_TOP200}

\* The number of filters that are set in the form
FiltersSet ==
  (IF adv_category > 0 THEN 1 ELSE 0) + (IF At(adv_title, 0) # NUL THEN 1 ELSE 0)
  + (IF At(adv_group, 0) # NUL THEN 1 ELSE 0) + (IF adv_type > 0 THEN 1 ELSE 0)
  + (IF adv_top200 THEN 1 ELSE 0)

\* The form as case '/' leaves it, as far as the result page goes
FormFresh == item_count = 0 /\ total_count = 0 /\ offset = 0

\* The user of the model fills in a fresh form only, sets at most MaxFilters
\* filters, and can take the top200 mark back
SpaceAllowed ==
  /\ FormFresh
  /\ \/ FiltersSet < MaxFilters
     \/ adv_cursor = ADV_FIELD_TOP200 /\ adv_top200

Key_space ==
  /\ Pressed(" ") /\ G_space /\ SpaceAllowed
  /\ adv_category' = IF adv_cursor = ADV_FIELD_CAT
                     THEN (adv_category + 1) % 4 ELSE adv_category
  /\ adv_type' = IF adv_cursor = ADV_FIELD_TYPE
                 THEN (adv_type + 1) % 5 ELSE adv_type
  /\ adv_top200' = IF adv_cursor = ADV_FIELD_TOP200
                   THEN ~adv_top200 ELSE adv_top200
  /\ NoteLocal
  /\ UNCHANGED <<pc, connVars, listVars, cursor, current_page, current_category,
                 searchVars, adv_cursor, adv_editing, adv_edit_pos, adv_title,
                 adv_group, setVars, infoVars, ioVars, cmd_out, auxVars>>

\* ---- case '>' and case '\r' on the Categories page ----
\* strcpy(current_category, item_names[cursor]); load_entries(.., 0)
enter_category(k, r) ==
  /\ current_category' = CStr(item_names[Selected], 0)
  /\ load_entries(k, CStr(item_names[Selected], 0), 0, r)

Key_gt ==
  /\ Pressed(">") /\ current_page = PAGE_CATS /\ Backlog
  /\ \E r \in Offered(ListServer) : enter_category(">", r)
  /\ UNCHANGED <<connVars, searchVars, advVars, setVars, infoVars, cmd_out, auxVars>>

\* ---- case '\r' ----
G_ret_cats    == current_page = PAGE_CATS
G_ret_toggle  == current_page = PAGE_SETTINGS /\ settings_cursor = 0
G_ret_save    == current_page = PAGE_SETTINGS /\ settings_cursor = 1
G_ret_endedit == current_page = PAGE_ADV_SEARCH /\ adv_editing
G_ret_edit    == /\ current_page = PAGE_ADV_SEARCH /\ ~adv_editing
                 /\ adv_cursor \in {ADV_FIELD_TITLE, ADV_FIELD_GROUP}
G_ret_search  == /\ current_page = PAGE_ADV_SEARCH /\ ~adv_editing
                 /\ adv_cursor = ADV_FIELD_SEARCH
G_ret_run     == /\ current_page \notin {PAGE_CATS, PAGE_SETTINGS, PAGE_ADV_SEARCH}
                 /\ item_count > 0

Key_return_cats ==
  /\ Pressed(K_RETURN) /\ G_ret_cats /\ Backlog
  /\ \E r \in Offered(ListServer) : enter_category(K_RETURN, r)
  /\ UNCHANGED <<connVars, searchVars, advVars, setVars, infoVars, cmd_out, auxVars>>

Key_return_toggle ==
  /\ Pressed(K_RETURN) /\ G_ret_toggle
  /\ settings_editing' = ~settings_editing
  /\ settings_edit_pos' = IF ~settings_editing THEN Len(server_host)
                          ELSE settings_edit_pos
  /\ NoteLocal
  /\ UNCHANGED <<pc, connVars, listVars, cursor, current_page, current_category,
                 searchVars, advVars, settings_cursor, server_host, infoVars,
                 ioVars, cmd_out, auxVars>>

\* save_settings() talks to the DOS target only; uci_status is modelled up
\* to the connect, the last place where main reads it
Key_return_save ==
  /\ Pressed(K_RETURN) /\ G_ret_save
  /\ current_page' = PAGE_CATS
  /\ NoteLocal
  /\ UNCHANGED <<pc, connVars, listVars, cursor, current_category,
                 searchVars, advVars, setVars, infoVars, ioVars, cmd_out, auxVars>>

Key_return_endedit ==
  /\ Pressed(K_RETURN) /\ G_ret_endedit
  /\ adv_editing' = FALSE
  /\ NoteLocal
  /\ UNCHANGED <<pc, connVars, listVars, cursor, current_page, current_category,
                 searchVars, adv_cursor, adv_edit_pos, adv_category, adv_title,
                 adv_group, adv_type, adv_top200, setVars, infoVars, ioVars, cmd_out, auxVars>>

Key_return_edit ==
  /\ Pressed(K_RETURN) /\ G_ret_edit /\ FormFresh
  /\ adv_editing' = TRUE
  /\ adv_edit_pos' = IF adv_cursor = ADV_FIELD_TITLE
                     THEN StrLenAt(adv_title, 0) ELSE StrLenAt(adv_group, 0)
  /\ NoteLocal
  /\ UNCHANGED <<pc, connVars, listVars, cursor, current_page, current_category,
                 searchVars, adv_cursor, adv_category, adv_title,
                 adv_group, adv_type, adv_top200, setVars, infoVars, ioVars, cmd_out, auxVars>>

Key_return_search ==
  /\ Pressed(K_RETURN) /\ G_ret_search /\ Backlog
  /\ \E r \in Offered(AdvServer) : do_adv_search(K_RETURN, 0, r, "search")
  /\ UNCHANGED <<connVars, current_category, searchVars, advVars, setVars,
                 infoVars, cmd_out, auxVars>>

Key_return_run ==
  /\ Pressed(K_RETURN) /\ G_ret_run /\ Backlog
  /\ \E r \in Offered(RunServer) : run_entry(K_RETURN, item_ids[Selected], r)
  /\ UNCHANGED <<connVars, listVars, cursor, current_page, current_category,
                 searchVars, advVars, setVars, infoVars, cmd_out, auxVars>>

\* ---- case 8 ----
G_del_host    == /\ current_page = PAGE_SETTINGS
                 /\ settings_editing /\ settings_edit_pos > 0
G_del_setback == current_page = PAGE_SETTINGS /\ ~settings_editing
G_del_query   == current_page = PAGE_SEARCH /\ search_query_len > 0
G_del_cats    == \/ current_page = PAGE_SEARCH /\ ~(search_query_len > 0)
                 \/ current_page = PAGE_LIST
                 \/ current_page = PAGE_ADV_SEARCH /\ ~adv_editing
G_del_text    == /\ current_page = PAGE_ADV_SEARCH /\ adv_editing
                 /\ \/ adv_cursor = ADV_FIELD_TITLE /\ StrLenAt(adv_title, 0) > 0
                    \/ /\ ~(adv_cursor = ADV_FIELD_TITLE /\ StrLenAt(adv_title, 0) > 0)
                       /\ adv_cursor = ADV_FIELD_GROUP /\ StrLenAt(adv_group, 0) > 0
G_del_form    == current_page = PAGE_ADV_RESULTS

\* The model keeps at least MinHostLen characters of the host
Key_del_host ==
  /\ Pressed(K_DEL) /\ G_del_host /\ settings_edit_pos > MinHostLen
  /\ settings_edit_pos' = settings_edit_pos - 1
  /\ server_host' = SubSeq(server_host, 1, settings_edit_pos - 1)
  /\ NoteLocal
  /\ UNCHANGED <<pc, connVars, listVars, cursor, current_page, current_category,
                 searchVars, advVars, settings_cursor, settings_editing, infoVars,
                 ioVars, cmd_out, auxVars>>

Key_del_setback ==
  /\ Pressed(K_DEL) /\ G_del_setback
  /\ current_page' = PAGE_CATS
  /\ NoteLocal
  /\ UNCHANGED <<pc, connVars, listVars, cursor, current_category,
                 searchVars, advVars, setVars, infoVars, ioVars, cmd_out, auxVars>>

Key_del_cats ==
  /\ Pressed(K_DEL) /\ G_del_cats /\ Backlog
  /\ \E r \in Offered(CatsServer) : load_categories(K_DEL, r)
  /\ UNCHANGED <<connVars, current_category, searchVars, advVars, setVars,
                 infoVars, cmd_out, auxVars>>

Key_del_text ==
  /\ Pressed(K_DEL) /\ G_del_text
  /\ IF adv_cursor = ADV_FIELD_TITLE
     THEN /\ adv_title' = SubSeq(adv_title, 1, StrLenAt(adv_title, 0) - 1)
          /\ UNCHANGED adv_group
     ELSE /\ adv_group' = SubSeq(adv_group, 1, StrLenAt(adv_group, 0) - 1)
          /\ UNCHANGED adv_title
  /\ NoteLocal
  /\ UNCHANGED <<pc, connVars, listVars, cursor, current_page, current_category,
                 searchVars, adv_cursor, adv_editing, adv_edit_pos, adv_category,
                 adv_type, adv_top200, setVars, infoVars, ioVars, cmd_out, auxVars>>

Key_del_form ==
  /\ Pressed(K_DEL) /\ G_del_form
  /\ current_page' = PAGE_ADV_SEARCH
  /\ NoteLocal
  /\ UNCHANGED <<pc, connVars, listVars, cursor, current_category,
                 searchVars, advVars, setVars, infoVars, ioVars, cmd_out, auxVars>>

\* ---- case 'n', case 'p' ----
G_n_list    == current_page = PAGE_LIST /\ offset + item_count < total_count
G_n_results == /\ ~G_n_list /\ current_page = PAGE_ADV_RESULTS
               /\ offset + item_count < total_count
G_p_list    == current_page = PAGE_LIST /\ offset > 0
G_p_results == ~G_p_list /\ current_page = PAGE_ADV_RESULTS /\ offset > 0

\* A case 'n' that loads the next page of a list whether or not there is one
Key_n_list_any ==
  /\ Pressed("n") /\ current_page = PAGE_LIST /\ Backlog
  /\ \E r \in Offered(ListServer) :
       load_entries("n", current_category, offset + PAGE_SIZE, r)
  /\ UNCHANGED <<connVars, current_category, searchVars, advVars, setVars,
                 infoVars, cmd_out, auxVars>>

Key_n_list ==
  /\ Pressed("n") /\ G_n_list /\ Backlog
  /\ \E r \in Offered(ListServer) :
       load_entries("n", current_category, offset + PAGE_SIZE, r)
  /\ UNCHANGED <<connVars, current_category, searchVars, advVars, setVars,
                 infoVars, cmd_out, auxVars>>

Key_n_results ==
  /\ Pressed("n") /\ G_n_results /\ Backlog
  /\ \E r \in Offered(AdvServer) :
       do_adv_search("n", offset + PAGE_SIZE, r, "page")
  /\ UNCHANGED <<connVars, current_category, searchVars, advVars, setVars,
                 infoVars, cmd_out, auxVars>>

Key_p_list ==
  /\ Pressed("p") /\ G_p_list /\ Backlog
  /\ \E r \in Offered(ListServer) : load_entries("p", current_category, PrevOffset, r)
  /\ UNCHANGED <<connVars, current_category, searchVars, advVars, setVars,
                 infoVars, cmd_out, auxVars>>

Key_p_results ==
  /\ Pressed("p") /\ G_p_results /\ Backlog
  /\ \E r \in Offered(AdvServer) : do_adv_search("p", PrevOffset, r, "page")
  /\ UNCHANGED <<connVars, current_category, searchVars, advVars, setVars,
                 infoVars, cmd_out, auxVars>>

\* ---- case 'i', case 'x' ----
G_i == /\ current_page \in {PAGE_LIST, PAGE_SEARCH, PAGE_ADV_RESULTS}
       /\ item_count > 0

Key_i ==
  /\ Pressed("i") /\ G_i /\ Backlog
  /\ \E r \in Offered(InfoServer) : fetch_info("i", item_ids[Selected], r)
  /\ UNCHANGED <<connVars, listVars, cursor, current_category, searchVars,
                 advVars, setVars, cmd_out, auxVars>>

\* An exit from the info screen that shows the list page whatever the page
\* before was
Key_x_list ==
  /\ Pressed("x") /\ current_page = PAGE_INFO
  /\ current_page' = PAGE_LIST
  /\ NoteLocal
  /\ UNCHANGED <<pc, connVars, listVars, cursor, current_category, searchVars,
                 advVars, setVars, infoVars, ioVars, cmd_out, auxVars>>

Key_x ==
  /\ Pressed("x") /\ current_page = PAGE_INFO
  /\ current_page' = info_return_page
  /\ NoteLocal
  /\ UNCHANGED <<pc, connVars, listVars, cursor, current_category, searchVars,
                 advVars, setVars, infoVars, ioVars, cmd_out, auxVars>>

\* ---- case '\t' ----
\* Key_tab, Key_del_query and Key_type_query are the handlers of the Search
\* page.  current_page becomes PAGE_SEARCH in do_search only (453), and
\* do_search is called from these three handlers only (1226, 1455, 1575),
\* each under current_page == PAGE_SEARCH: from the initial PAGE_CATS no key
\* leads to the page, so the three are not steps of the program (Next).
Key_tab ==
  /\ Pressed(K_TAB) /\ current_page = PAGE_SEARCH
  /\ search_category' = (search_category + 1) % 4
  /\ IF search_query_len >= 2
     THEN /\ Backlog
          /\ \E r \in Offered(SearchServer) :
               do_search(K_TAB, search_query, (search_category + 1) % 4, 0, r)
     ELSE /\ NoteLocal
          /\ UNCHANGED <<pc, listVars, cursor, current_page, ioVars>>
  /\ UNCHANGED <<connVars, current_category, search_query, advVars, setVars,
                 infoVars, cmd_out, auxVars>>

\* ---- case 8 on the Search page with a query ----
Key_del_query ==
  /\ Pressed(K_DEL) /\ G_del_query
  /\ LET query == SubSeq(search_query, 1, search_query_len - 1)
     IN  /\ search_query' = query
         /\ IF Len(query) >= 2
            THEN /\ Backlog
                 /\ \E r \in Offered(SearchServer) :
                      do_search(K_DEL, query, search_category, 0, r)
            ELSE /\ item_count' = 0 /\ total_count' = 0
                 /\ NoteLocal
                 /\ UNCHANGED <<pc, item_names, item_ids, offset, cursor,
                                current_page, ioVars>>
  /\ UNCHANGED <<connVars, current_category, search_category, advVars, setVars,
                 infoVars, cmd_out, auxVars>>

\* ---- default: typed characters ----
QUERY_MAX == 30
MaxQuery  == 3

G_type_query == /\ current_page = PAGE_SEARCH
                /\ search_query_len < QUERY_MAX
G_type_host  == /\ current_page = PAGE_SETTINGS /\ settings_editing
                /\ settings_edit_pos < HOST_MAX
G_type_text  == /\ current_page = PAGE_ADV_SEARCH /\ adv_editing
                /\ \/ adv_cursor = ADV_FIELD_TITLE
                      /\ StrLenAt(adv_title, 0) < ADV_TEXT_MAX
                   \/ adv_cursor = ADV_FIELD_GROUP
                      /\ StrLenAt(adv_group, 0) < ADV_TEXT_MAX

Key_type_query ==
  \E k \in LetterKeys \cup DigitKeys :
    /\ Pressed(k) /\ G_type_query /\ search_query_len < MaxQuery
    /\ LET query == Append(search_query, k)
       IN  /\ search_query' = query
           /\ IF Len(query) >= 2
              THEN /\ Backlog
                   /\ \E r \in Offered(SearchServer) :
                        do_search(k, query, search_category, 0, r)
              ELSE /\ NoteLocal
                   /\ UNCHANGED <<pc, listVars, cursor, current_page, ioVars>>
    /\ UNCHANGED <<connVars, current_category, search_category, advVars, setVars,
                   infoVars, cmd_out, auxVars>>

Key_type_host ==
  \E k \in DigitKeys :
    /\ Pressed(k) /\ G_type_host /\ settings_edit_pos < MaxHostLen
    /\ server_host' = Append(SubSeq(server_host, 1, settings_edit_pos), k)
    /\ settings_edit_pos' = settings_edit_pos + 1
    /\ NoteLocal
    /\ UNCHANGED <<pc, connVars, listVars, cursor, current_page, current_category,
                   searchVars, advVars, settings_cursor, settings_editing, infoVars,
                   ioVars, cmd_out, auxVars>>

Key_type_text ==
  \E k \in LetterKeys :
    /\ Pressed(k) /\ G_type_text /\ FiltersSet < MaxFilters
    /\ IF adv_cursor = ADV_FIELD_TITLE
       THEN /\ Len(adv_title) < MaxText
            /\ adv_title' = Append(CStr(adv_title, 0), k)
            /\ UNCHANGED adv_group
       ELSE /\ Len(adv_group) < MaxText
            /\ adv_group' = Append(CStr(adv_group, 0), k)
            /\ UNCHANGED adv_title
    /\ NoteLocal
    /\ UNCHANGED <<pc, connVars, listVars, cursor, current_page, current_category,
                   searchVars, adv_cursor, adv_editing, adv_edit_pos, adv_category,
                   adv_type, adv_top200, setVars, infoVars, ioVars, cmd_out, auxVars>>

\* ---- a key whose case finds none of its conditions true ----
Handled(k) ==
  CASE k \in {"q", "c", "/", ">"} -> current_page = PAGE_CATS
    [] k = K_TAB -> current_page = PAGE_SEARCH
    [] k = "u" -> G_u_settings \/ G_u_form \/ G_u_results \/ G_u_fetch \/ G_u_other
    [] k = "d" -> G_d_settings \/ G_d_form \/ G_d_results \/ G_d_fetch \/ G_d_other
    [] k = " " -> G_space
    [] k = K_RETURN -> \/ G_ret_cats \/ G_ret_toggle \/ G_ret_save \/ G_ret_endedit
                       \/ G_ret_edit \/ G_ret_search \/ G_ret_run
    [] k = K_DEL -> \/ G_del_host \/ G_del_setback \/ G_del_query \/ G_del_cats
                    \/ G_del_text \/ G_del_form
    [] k = "n" -> G_n_list \/ G_n_results
    [] k = "p" -> G_p_list \/ G_p_results
    [] k = "i" -> G_i
    [] k = "x" -> current_page = PAGE_INFO
    [] OTHER -> G_type_query \/ G_type_host \/ G_type_text

Key_none ==
  \E k \in get_key :
    /\ Pressed(k) /\ ~Handled(k)
    /\ NoteLocal
    /\ UNCHANGED <<pc, connVars, listVars, cursor, current_page, current_category,
                   searchVars, advVars, setVars, infoVars, ioVars, cmd_out, auxVars>>

\* ======================================================================
\* The program: start-up, then the navigation loop
\* ======================================================================

Next ==
  \/ Boot \/ Connect \/ LoadFirst
  \/ Key_q \/ Key_c \/ Key_slash
  \/ Key_u_settings \/ Key_u_form \/ Key_u_cursor \/ Key_u_fetch
  \/ Key_d_settings \/ Key_d_form \/ Key_d_cursor \/ Key_d_fetch
  \/ Key_space \/ Key_gt
  \/ Key_return_cats \/ Key_return_toggle \/ Key_return_save
  \/ Key_return_endedit \/ Key_return_edit \/ Key_return_search \/ Key_return_run
  \/ Key_del_host \/ Key_del_setback \/ Key_del_cats \/ Key_del_text \/ Key_del_form
  \/ Key_n_list \/ Key_n_results \/ Key_p_list \/ Key_p_results
  \/ Key_i \/ Key_x
  \/ Key_type_host \/ Key_type_text
  \/ Key_none

Spec == Init /\ [][Next]_vars

\* ======================================================================
\* The command builders on their own: do_search and do_adv_search up to
\* their send_command, for the filters and offsets the forms can hold
\* ======================================================================

\* The texts and offsets the builders are run with: an empty text, a short
\* one, one of the greatest length the form accepts.  LongOffset is the
\* page offset with the most digits.
LongOffset  == 32760
CmdOffsets  == {0, PAGE_SIZE, LongOffset}
CmdTitles   == {<<>>, <<"T">>, Rep("T", ADV_TEXT_MAX)}
CmdGroups   == {<<>>, <<"G">>, Rep("G", ADV_TEXT_MAX)}
CmdQueries  == {<<>>, <<"A">>, <<"A", "6">>, Rep("Q", QUERY_MAX)}

InitCmd ==
  /\ pc \in {"cmd_adv", "cmd_search"}
  /\ user = "browse"
  /\ socket_id = 0 /\ connected = TRUE /\ uci_status = <<"0", "0">>
  /\ item_names = [i \in 1..MAX_ITEMS |-> <<>>]
  /\ item_ids = [i \in 1..MAX_ITEMS |-> 0]
  /\ item_count = 0 /\ total_count = 0 /\ cursor = 0
  /\ offset \in CmdOffsets
  /\ current_category = <<>>
  /\ adv_cursor = ADV_FIELD_SEARCH /\ adv_editing = FALSE /\ adv_edit_pos = 0
  /\ settings_cursor = 0 /\ settings_edit_pos = 0 /\ settings_editing = FALSE
  /\ server_host = DEFAULT_SERVER_HOST
  /\ line_buffer = <<>>
  /\ info_return_page = PAGE_CATS
  /\ info_labels = [i \in 1..MAX_INFO_LINES |-> <<>>]
  /\ info_values = [i \in 1..MAX_INFO_LINES |-> <<>>]
  /\ info_line_count = 0
  /\ uci_data = <<>> /\ uci_data_index = 0 /\ uci_data_len = 0
  /\ net = <<>> /\ peer_closed = FALSE
  /\ InitNotes
  /\ sock_log = <<"connect", "io">>
  /\ IF pc = "cmd_adv"
     THEN /\ current_page = PAGE_ADV_SEARCH
          /\ adv_category \in 0..3 /\ adv_title \in CmdTitles
          /\ adv_group \in CmdGroups /\ adv_type \in 0..4
          /\ adv_top200 \in BOOLEAN
          /\ search_query = <<>> /\ search_category = 0
     ELSE /\ current_page = PAGE_SEARCH
          /\ search_query \in CmdQueries /\ search_category \in 0..3
          /\ adv_category = 0 /\ adv_title = <<>> /\ adv_group = <<>>
          /\ adv_type = 0 /\ adv_top200 = FALSE

\* do_adv_search(offset), lines 463-497: cmd as it is handed to send_command
BuildAdvSearch ==
  /\ pc = "cmd_adv"
  /\ \E cmd \in cmd_buffer(adv_search_cmd(offset, adv_category, adv_title,
                                          adv_group, adv_type, adv_top200),
                          CMD_ADV_SIZE) :
       cmd_out' = cmd
  /\ pc' = "built_adv"
  /\ UNCHANGED <<connVars, listVars, cursor, current_page, current_category,
                 searchVars, advVars, setVars, infoVars, ioVars, noteVars, auxVars>>

\* do_search(search_query, offset), lines 400-407
BuildSearch ==
  /\ pc = "cmd_search"
  /\ \E cmd \in cmd_buffer(search_cmd(search_query, offset, search_category),
                          CMD_SEARCH_SIZE) :
       cmd_out' = cmd
  /\ pc' = "built_search"
  /\ UNCHANGED <<connVars, listVars, cursor, current_page, current_category,
                 searchVars, advVars, setVars, infoVars, ioVars, noteVars, auxVars>>

NextCmd == BuildAdvSearch \/ BuildSearch

SpecCmd == InitCmd /\ [][NextCmd]_vars

\* ======================================================================
\* The paging keys on their own: the navigation loop on a List or an
\* Advanced-results page of a longer result, with filters of every length
\* the form accepts
\* ======================================================================

PageOffsets == {0, PAGE_SIZE, 2 * PAGE_SIZE}
PageTitles  == {<<>>, Rep("T", ADV_TEXT_MAX)}
PageGroups  == {<<>>, Rep("G", ADV_TEXT_MAX)}

\* A page of two entries out of 41, as load_entries or do_adv_search leave it
InitPage ==
  /\ pc = "nav"
  /\ user = "browse"
  /\ socket_id = 0 /\ connected = TRUE /\ uci_status = <<"0", "0", ",", "O", "K">>
  /\ item_names = [i \in 1..MAX_ITEMS |-> IF i <= 2 THEN EntryName(i) ELSE <<>>]
  /\ item_ids = [i \in 1..MAX_ITEMS |-> IF i <= 2 THEN i ELSE 0]
  /\ item_count = 2 /\ total_count = 41
  /\ cursor \in {0, 1}
  /\ offset \in PageOffsets
  /\ current_page \in {PAGE_LIST, PAGE_ADV_RESULTS}
  /\ search_query = <<>> /\ search_category = 0
  /\ adv_editing = FALSE /\ adv_edit_pos = 0
  /\ settings_cursor = 0 /\ settings_edit_pos = 0 /\ settings_editing = FALSE
  /\ server_host = DEFAULT_SERVER_HOST
  /\ line_buffer = <<".", NUL>>
  /\ info_return_page = PAGE_CATS
  /\ info_labels = [i \in 1..MAX_INFO_LINES |-> <<>>]
  /\ info_values = [i \in 1..MAX_INFO_LINES |-> <<>>]
  /\ info_line_count = 0
  /\ uci_data = <<>> /\ uci_data_index = 0 /\ uci_data_len = 0
  /\ net = <<>> /\ peer_closed = FALSE
  /\ InitNotes
  /\ sock_log = <<"connect", "io">>
  /\ IF current_page = PAGE_LIST
     THEN /\ current_category = CatName(1)
          /\ adv_cursor = 0 /\ adv_category = 0 /\ adv_title = <<>>
          /\ adv_group = <<>> /\ adv_type = 0 /\ adv_top200 = FALSE
     ELSE /\ current_category = <<>>
          /\ adv_cursor = ADV_FIELD_SEARCH
          /\ adv_category = 1 /\ adv_title \in PageTitles
          /\ adv_group \in PageGroups /\ adv_type = 1
          /\ adv_top200 \in BOOLEAN

NextPage ==
  \/ Key_n_list \/ Key_n_results \/ Key_p_list \/ Key_p_results
  \/ Key_u_cursor \/ Key_u_fetch \/ Key_d_cursor \/ Key_d_fetch

SpecPage == InitPage /\ [][NextPage]_vars

\* ======================================================================
\* ultimate.c: the command channel.  The driver runs one library call
\* after the other, one register access at a time; the controller answers
\* control strobes at once and works on a command at its own pace
\* ======================================================================

mainVars == <<pc, connVars, listVars, cursor, current_page, current_category,
              searchVars, advVars, setVars, infoVars, ioVars, noteVars, cmd_out>>

\* *UCI_STATUS_REG & 0x20, & 0x10: the state bits (00 idle, 01 busy,
\* 10 data last, 11 data more); & 0x01: command busy
Bit5(ch) == ch.state \in {"last", "more"}
Bit4(ch) == ch.state \in {"busy", "more"}
CmdBusy(ch) == ch.state = "busy"

\* ultimate.h: the bits of the control register and of the status register,
\* which is read at the address the control register is written at
UCI_CTRL_PUSH_CMD == 1
UCI_CTRL_DATA_ACC == 2
UCI_CTRL_ABORT    == 4
UCI_CTRL_CLR_ERR  == 8
UCI_STAT_CMD_BUSY == 1
UCI_STAT_DATA_ACC == 2
UCI_STAT_ERROR    == 8
UCI_STAT_STAT_AV  == 64
UCI_STAT_DATA_AV  == 128

\* v & b # 0 for a single bit b
HasBit(v, b) == (v \div b) % 2 = 1

\* *UCI_STATUS_REG: the byte the controller shows.  No abort is requested in
\* the program, the abort-pending bit reads 0
StatusReg(ch) ==
    (IF CmdBusy(ch) THEN UCI_STAT_CMD_BUSY ELSE 0)
  + (IF ch.acc THEN UCI_STAT_DATA_ACC ELSE 0)
  + (IF ch.error THEN UCI_STAT_ERROR ELSE 0)
  + (IF Bit4(ch) THEN 16 ELSE 0)
  + (IF Bit5(ch) THEN 32 ELSE 0)
  + (IF ch.sav THEN UCI_STAT_STAT_AV ELSE 0)
  + (IF ch.dav THEN UCI_STAT_DATA_AV ELSE 0)

\* *UCI_CONTROL_REG |= UCI_CTRL_DATA_ACC: the register is read, the bit is
\* set in the byte read, the byte is written
uci_accept_value(st) ==
  IF HasBit(st, UCI_CTRL_DATA_ACC) THEN st ELSE st + UCI_CTRL_DATA_ACC

\* The library calls main makes, each with the frame it hands to
\* uci_sendcommand (cmd[0] is 0 until uci_sendcommand stores the target) and
\* what follows the command: uci_readdata, uci_readstatus, uci_accept.
\* Network calls save uci_target and restore it before they return.
LibCall(fn, target, bytes, data, restore) ==
  [fn |-> fn, target |-> target, bytes |-> bytes, data |-> data,
   status |-> TRUE, accept |-> TRUE, restore |-> restore, saved |-> 0]

\* uci_read_file sends its command and returns; load_settings, its only
\* caller, then waits for data and calls uci_readdata, uci_readstatus and
\* uci_accept itself.  This variant is a caller that leaves the accept out
read_file_unaccepted ==
  [LibCall("uci_read_file", UCI_TARGET_DOS1, <<0, 4, 31, 0>>, TRUE, FALSE)
     EXCEPT !.accept = FALSE]

read_file_call ==
  LibCall("uci_read_file", UCI_TARGET_DOS1, <<0, 4, 31, 0>>, TRUE, FALSE)

LibCalls ==
  { LibCall("uci_identify", UCI_TARGET_DOS1, <<0, 1>>, TRUE, FALSE),
    LibCall("uci_open_file", UCI_TARGET_DOS1, <<0, 2, 1, 83>>, TRUE, FALSE),
    read_file_call,
    LibCall("uci_close_file", UCI_TARGET_DOS1, <<0, 3>>, TRUE, FALSE),
    LibCall("uci_delete_file", UCI_TARGET_DOS1, <<0, 9, 83>>, FALSE, FALSE),
    LibCall("uci_write_file", UCI_TARGET_DOS1, <<0, 5, 0, 0, 49>>, TRUE, FALSE),
    LibCall("uci_getipaddress", UCI_TARGET_NETWORK, <<0, 5, 0>>, TRUE, TRUE),
    LibCall("uci_connect", UCI_TARGET_NETWORK, <<0, 7, 110, 23, 49, 0>>, TRUE, TRUE),
    LibCall("uci_socket_read", UCI_TARGET_NETWORK, <<0, 16, 0, 124, 3>>, TRUE, TRUE),
    LibCall("uci_socket_write", UCI_TARGET_NETWORK, <<0, 17, 0, 67>>, TRUE, TRUE),
    LibCall("uci_socket_close", UCI_TARGET_NETWORK, <<0, 9, 0>>, TRUE, TRUE) }

\* The errors the controller raises on a push in one session
MaxErrors == 2

Note(tok) == [unote EXCEPT !.log = Append(@, tok)]

InitUci ==
  /\ pc = "driver"
  /\ user = "browse"
  /\ InitStatics
  /\ net = <<>> /\ peer_closed = FALSE
  /\ InitNotes
  /\ sock_log = <<>>

\* A library call begins: uci_settarget(target)
Call ==
  /\ pc = "driver" /\ uci_pc = "caller"
  /\ \E c \in LibCalls :
       call' = [c EXCEPT !.saved = uci_target]
       /\ uci_target' = c.target
  /\ uci_pc' = "send"
  /\ unote' = [unote EXCEPT !.log = <<>>]
  /\ UNCHANGED <<mainVars, chan, wr, rnote>>

\* uci_sendcommand: bytes[0] = uci_target
SendStart ==
  /\ uci_pc = "send"
  /\ call' = [call EXCEPT !.bytes[1] = uci_target]
  /\ uci_pc' = "idle5"
  /\ UNCHANGED <<mainVars, uci_target, chan, wr, unote, rnote>>

\* A test that takes bit 5 of the status register for clear
Bit5Clear_any(ch) == TRUE

\* (*UCI_STATUS_REG & 0x20) == 0
Bit5Clear(ch) == ~Bit5(ch)

\* "Wait for idle state": the first read of the loop condition; the loop
\* spins while bit 5 is set
WaitIdle5 ==
  /\ uci_pc = "idle5"
  /\ Bit5Clear(chan)
  /\ uci_pc' = "idle4"
  /\ UNCHANGED <<mainVars, uci_target, call, chan, wr, unote, rnote>>

\* The second read of the loop condition: bit 4
WaitIdle4 ==
  /\ uci_pc = "idle4"
  /\ IF ~Bit4(chan)
     THEN uci_pc' = "write" /\ unote' = Note("idle")
     ELSE uci_pc' = "idle5" /\ UNCHANGED unote
  /\ UNCHANGED <<mainVars, uci_target, call, chan, wr, rnote>>

\* for (x = 0; x < count; x++) *UCI_CMD_DATA_REG = bytes[x]
WriteFrame ==
  /\ uci_pc = "write"
  /\ wr' = wr \o call.bytes
  /\ uci_pc' = "push"
  /\ unote' = Note("frame")
  /\ UNCHANGED <<mainVars, uci_target, call, chan, rnote>>

\* What the controller makes of a push: it takes the command and is busy,
\* or raises the error flag (on a push that finds it not idle, and on up to
\* MaxErrors others)
Pushed(ch, taken) ==
  IF taken THEN [ch EXCEPT !.state = "busy"] ELSE [ch EXCEPT !.error = TRUE]

\* *UCI_CONTROL_REG = UCI_CTRL_PUSH_CMD
Push ==
  /\ uci_pc = "push"
  /\ \E taken \in BOOLEAN :
       /\ taken => (chan.state = "idle" /\ ~chan.error)
       /\ ~taken => (chan.state # "idle" \/ chan.error \/ unote.errs < MaxErrors)
       /\ chan' = Pushed(chan, taken)
       /\ unote' = [unote EXCEPT !.log = Append(@, "push"),
                                 !.open = @ \/ taken,
                                 !.clash = @ \/ unote.open,
                                 !.errs = IF taken THEN @ ELSE @ + 1]
  /\ wr' = <<>>
  /\ uci_pc' = "check"
  /\ UNCHANGED <<mainVars, uci_target, call, rnote>>

\* A check that waits for the error flag to go away by itself
CheckErrorSpin ==
  /\ uci_pc = "check"
  /\ uci_pc' = IF chan.error THEN "check" ELSE "busy5"
  /\ UNCHANGED <<mainVars, uci_target, call, chan, wr, unote, rnote>>

\* if (*UCI_STATUS_REG & UCI_STAT_ERROR) *UCI_CONTROL_REG = UCI_CTRL_CLR_ERR;
\* and round the loop again, else on to the wait for completion
CheckError ==
  /\ uci_pc = "check"
  /\ IF chan.error
     THEN /\ chan' = [chan EXCEPT !.error = FALSE]
          /\ uci_pc' = "idle5" /\ unote' = Note("clr")
     ELSE /\ uci_pc' = "busy5" /\ UNCHANGED <<chan, unote>>
  /\ UNCHANGED <<mainVars, uci_target, call, wr, rnote>>

\* "Wait for command to complete": the loop goes on while bit 5 is clear
\* and bit 4 is set, each read on its own; success = 1 after it
WaitDone5 ==
  /\ uci_pc = "busy5"
  /\ uci_pc' = IF ~Bit5(chan) THEN "busy4" ELSE "sent"
  /\ UNCHANGED <<mainVars, uci_target, call, chan, wr, unote, rnote>>

WaitDone4 ==
  /\ uci_pc = "busy4"
  /\ uci_pc' = IF Bit4(chan) THEN "busy5" ELSE "sent"
  /\ UNCHANGED <<mainVars, uci_target, call, chan, wr, unote, rnote>>

\* uci_sendcommand has returned: uci_readdata and uci_readstatus empty the
\* queues (load_settings first waits for data, giving up after 1000 polls)
ReadResponse ==
  /\ uci_pc = "sent"
  /\ chan' = [chan EXCEPT !.dav = @ /\ ~call.data, !.sav = @ /\ ~call.status]
  /\ uci_pc' = IF call.accept THEN "accept" ELSE "return"
  /\ UNCHANGED <<mainVars, uci_target, call, wr, unote, rnote>>

\* uci_accept: *UCI_CONTROL_REG |= UCI_CTRL_DATA_ACC.  The register reads as
\* the status register, so the value written carries the status bits that
\* share a position with a control bit: command busy with push, error with
\* clear-error
AcceptWrite ==
  /\ uci_pc = "accept"
  /\ chan' = [chan EXCEPT !.acc = TRUE,
                          !.error = CmdBusy(chan)]
  /\ unote' = [unote EXCEPT !.clash = @ \/ CmdBusy(chan),
                            !.ctrl = uci_accept_value(StatusReg(chan))]
  /\ uci_pc' = "accwait"
  /\ UNCHANGED <<mainVars, uci_target, call, wr, rnote>>

\* while ((*UCI_STATUS_REG & UCI_STAT_DATA_ACC) != 0) ;
AcceptWait ==
  /\ uci_pc = "accwait"
  /\ ~chan.acc
  /\ uci_pc' = "return"
  /\ unote' = [unote EXCEPT !.open = FALSE, !.accepted = TRUE]
  /\ UNCHANGED <<mainVars, uci_target, call, chan, wr, rnote>>

\* A return that leaves the target the call has selected
Return_selected ==
  /\ uci_pc = "return"
  /\ uci_target' = uci_target
  /\ uci_pc' = "caller"
  /\ UNCHANGED <<mainVars, call, chan, wr, unote, rnote>>

\* The library call returns: uci_target = saved in the network calls
Return ==
  /\ uci_pc = "return"
  /\ uci_target' = IF call.restore THEN call.saved ELSE uci_target
  /\ uci_pc' = "caller"
  /\ UNCHANGED <<mainVars, call, chan, wr, unote, rnote>>

\* The controller has worked on the command: data and status are there
CtlComplete ==
  /\ chan.state = "busy"
  /\ chan' = [chan EXCEPT !.state = "last", !.dav = TRUE, !.sav = TRUE]
  /\ UNCHANGED <<mainVars, uci_target, uci_pc, call, wr, unote, rnote>>

\* The controller has seen the acknowledgement: the bit reads clear again;
\* it is idle at once or a moment later
CtlAck ==
  /\ chan.acc
  /\ \E now \in BOOLEAN :
       chan' = IF chan.state # "last" THEN [chan EXCEPT !.acc = FALSE]
               ELSE IF now
               THEN [chan EXCEPT !.acc = FALSE, !.state = "idle",
                                 !.dav = FALSE, !.sav = FALSE]
               ELSE [chan EXCEPT !.acc = FALSE, !.acked = TRUE]
  /\ UNCHANGED <<mainVars, uci_target, uci_pc, call, wr, unote, rnote>>

CtlIdle ==
  /\ chan.acked /\ chan.state = "last"
  /\ chan' = [chan EXCEPT !.state = "idle", !.acked = FALSE,
                          !.dav = FALSE, !.sav = FALSE]
  /\ UNCHANGED <<mainVars, uci_target, uci_pc, call, wr, unote, rnote>>

Driver ==
  \/ Call \/ SendStart \/ WaitIdle5 \/ WaitIdle4 \/ WriteFrame \/ Push
  \/ CheckError \/ WaitDone5 \/ WaitDone4 \/ ReadResponse
  \/ AcceptWrite \/ AcceptWait \/ Return

Controller == CtlComplete \/ CtlAck \/ CtlIdle

NextUci == Driver \/ Controller

SpecUci == InitUci /\ [][NextUci]_vars

\* The driver is a running program and the controller a working device:
\* neither stops for ever while it can take a step
SpecUciFair ==
  /\ InitUci /\ [][NextUci]_vars
  /\ WF_vars(Driver) /\ WF_vars(CtlComplete) /\ WF_vars(CtlAck) /\ WF_vars(CtlIdle)

\* uci_accept on its own: the call is a socket read that has read its
\* response, and the status register shows any of the values the
\* controller's bits can make up
StatusChans ==
  [state : {"idle", "busy", "last", "more"}, error : BOOLEAN, acc : BOOLEAN,
   acked : {FALSE}, dav : BOOLEAN, sav : BOOLEAN]

InitAccept ==
  /\ pc = "driver"
  /\ user = "browse"
  /\ InitStatics
  /\ net = <<>> /\ peer_closed = FALSE
  /\ rnote = NoRNote
  /\ key = "" /\ sent = <<>> /\ reads = 0 /\ rsp = NoResponse
  /\ insync = TRUE /\ hdr_lb = <<>>
  /\ prev = [item_count |-> 0, total_count |-> 0, offset |-> 0, cursor |-> 0,
             page |-> PAGE_CATS]
  /\ rare = 0 /\ cmds = 0
  /\ cmd_out = <<>>
  /\ sock_log = <<>>
  /\ uci_target = UCI_TARGET_NETWORK
  /\ uci_pc = "accept"
  /\ call = [LibCall("uci_socket_read", UCI_TARGET_NETWORK,
                     <<UCI_TARGET_NETWORK, 16, 0, 124, 3>>, TRUE, TRUE)
               EXCEPT !.saved = UCI_TARGET_DOS1]
  /\ chan \in StatusChans
  /\ wr = <<>>
  /\ unote = [NoUNote EXCEPT !.open = TRUE]

NextAccept == AcceptWrite \/ AcceptWait \/ Return \/ Controller

SpecAccept == InitAccept /\ [][NextAccept]_vars

\* ======================================================================
\* Properties
\* ======================================================================

Min(a, b) == IF a < b THEN a ELSE b

CatalogKinds == {"CATS", "LIST", "SEARCH", "ADVSEARCH", "INFO", "RUN"}
EntryKinds   == {"LIST", "SEARCH", "ADVSEARCH"}

\* The step just taken sent a command of kind kd and the operation returned
Returned(kd) == pc = "nav" /\ rsp.kind = kd

\* A body line with an id and a name, and the name the server gave it
HasIdAndName(b) == b.k # "junk"
NameOf(b) == IF b.k = "long" THEN LongName ELSE EntryName(b.i)

\* The position of the first body line of r that starts with '.', 0 when
\* there is none, and the body lines before it
DotAt(r) ==
  IF \E j \in 1..Len(r.body) : r.body[j].k = "dot"
  THEN CHOOSE j \in 1..Len(r.body) :
         r.body[j].k = "dot" /\ \A i \in 1..(j - 1) : r.body[i].k # "dot"
  ELSE 0
Body(r) == IF DotAt(r) = 0 THEN r.body ELSE SubSeq(r.body, 1, DotAt(r) - 1)

\* The server sent the terminator line and no line that starts with '.'
\* before it
EndsAtTerm(r) == r.term /\ DotAt(r) = 0

\* The body lines of response r an entry operation is to keep: of those that
\* have an id and a name, the first min(n, 20)
Kept(r) ==
  SubSeq(SelectSeq(Body(r), HasIdAndName), 1,
         Min(Min(r.n, MAX_ITEMS), Len(SelectSeq(Body(r), HasIdAndName))))

\* ----------------------------------------------------------------------
\* C1: load_categories, answered with a header, k body lines (k = 20 and
\* k > 20 included) and a terminator, keeps at most 20 categories and has
\* consumed every line through the terminator when it returns; so the LIST
\* sent next from the Categories page is one command and parses its own
\* header line.
\* ----------------------------------------------------------------------
C1_CategoriesDrained ==
  /\ (Returned("CATS") /\ insync /\ rsp.hdr = "ok1" /\ EndsAtTerm(rsp))
       => /\ item_count <= MAX_ITEMS
          /\ Len(sent) = 1
          /\ ~Pending
  /\ (rsp.kind = "LIST" /\ prev.page = PAGE_CATS /\ rsp.hdr # "none"
        /\ hdr_lb # <<>>)
       => /\ Len(sent) = 1
          /\ CStr(hdr_lb, 0) = HeaderLine(rsp)

\* ----------------------------------------------------------------------
\* C2: load_entries, answered with "OK n total", k body lines and a
\* terminator (n > 20, k > n and k < n included), returns with the ids and
\* names (the first 31 characters of a name) of the first min(n, 20) body
\* lines that have an id and a name, in the server's order, and with every
\* line through the terminator consumed.
\* ----------------------------------------------------------------------
C2_EntriesRetained ==
  (rsp.kind = "LIST" /\ insync /\ rsp.hdr = "ok2" /\ EndsAtTerm(rsp))
    => /\ pc = "nav"
       /\ item_count = Len(Kept(rsp))
       /\ \A j \in 1..Len(Kept(rsp)) :
            /\ item_ids[j] = Kept(rsp)[j].i
            /\ item_names[j] = StrNCpy(NameOf(Kept(rsp)[j]), NAME_MAX)
       /\ ~Pending

\* More lines than announced and more than the client keeps: 21 of 21
C2_Witness ==
  /\ Returned("LIST") /\ insync /\ rsp.hdr = "ok2" /\ rsp.term
  /\ rsp.n = MAX_ITEMS + 1 /\ Len(rsp.body) = MAX_ITEMS + 1
  /\ item_count = MAX_ITEMS /\ ~Pending

\* ----------------------------------------------------------------------
\* C3: after every load_entries that received an OK header,
\* offset + item_count <= total_count and item_count <= min(n, 20), n being
\* the count in the header.
\* ----------------------------------------------------------------------
C3_PageWithinTotal ==
  (Returned("LIST") /\ insync /\ rsp.hdr = "ok2")
    => /\ offset + item_count <= total_count
       /\ item_count <= Min(rsp.n, MAX_ITEMS)

\* ----------------------------------------------------------------------
\* C4: when the peer has closed the connection while a catalog operation
\* waits for its header, a body line or the terminator, the operation
\* returns to the navigation loop.
\* ----------------------------------------------------------------------
C4_EofReturns ==
  (peer_closed /\ insync /\ rsp.kind \in CatalogKinds \ {"RUN"}) => pc # "hung"

\* ----------------------------------------------------------------------
\* C5: after the server answers a command with a single ERR line and no
\* terminator, the client is back in the navigation loop, accepting keys.
\* ----------------------------------------------------------------------
C5_ErrorLineNotFatal ==
  (rsp.hdr = "err" /\ insync /\ rsp.kind \in CatalogKinds \ {"CATS"})
    => pc = "nav"

\* ----------------------------------------------------------------------
\* C6: the step that connects goes by the status alone: not "00", whatever
\* the socket id, leaves connected false and ends main with no command sent
\* and no socket read made, and nothing happens after main has ended; "00"
\* sets connected and goes on to load the categories, also with socket id 0.
\* ----------------------------------------------------------------------
C6_ConnectByStatus ==
  [][/\ pc # "exit"
     /\ pc = "connect" =>
          IF uci_success(uci_status')
          THEN connected' /\ pc' = "load" /\ sent' = <<>>
          ELSE ~connected' /\ pc' = "exit" /\ sent' = <<>> /\ reads' = 0]_vars

\* The connect failed although the controller handed out a socket id
C6_Witness ==
  /\ pc = "exit" /\ ~connected /\ socket_id = 1
  /\ uci_status = <<"8", "4">> /\ sent = <<>> /\ reads = 0

\* ----------------------------------------------------------------------
\* C7: a step of the navigation loop sends at most one command, a catalog
\* command (QUIT when it leaves the loop), and one that sends none reads
\* nothing from the socket.
\* ----------------------------------------------------------------------
CommandWords == {S_CATS, S_LIST, S_SEARCH, S_ADVSEARCH, S_INFO, S_RUN}

CommandWord(cmd) == SubSeq(cmd, 1, FirstAt(cmd, 0, {" "}))

C7_OneCommandPerIntent ==
  /\ Len(sent) <= 1
  /\ \A i \in 1..Len(sent) :
       IF pc = "exit" THEN sent[i] = S_QUIT ELSE CommandWord(sent[i]) \in CommandWords
  /\ (sent = <<>> /\ rsp.kind # "GREET") => reads = 0

\* A next-page key sent its one command
C7_Witness ==
  /\ pc = "nav" /\ key = "n" /\ Len(sent) = 1 /\ reads > 0
  /\ CommandWord(sent[1]) \in {S_LIST, S_ADVSEARCH}

\* ----------------------------------------------------------------------
\* C8: after load_entries, do_search or do_adv_search, item_count, offset
\* and total_count are what the request and the response give, whatever
\* page was loaded before: the offset is the one sent, the items are those
\* of the response, total_count is what the header line yields on its own.
\* ----------------------------------------------------------------------
C8_PageReplaced ==
  (pc = "nav" /\ rsp.kind \in EntryKinds /\ insync /\ rsp.hdr \in {"ok1", "ok2"}
     /\ rsp.term)
    => /\ item_count = Len(Kept(rsp))
       /\ sent = IF rsp.kind = "LIST"
                 THEN <<list_cmd(current_category, offset)>>
                 ELSE <<adv_search_cmd(offset, adv_category, adv_title,
                                       adv_group, adv_type, adv_top200)>>
       /\ total_count = parse_header(HeaderLine(rsp), 0).total

\* ----------------------------------------------------------------------
\* C9: do_adv_search sends "ADVSEARCH <offset> 20" followed by " cat=",
\* " title=", " group=", " type=" and " top200=1" clauses in this order,
\* each present exactly when its filter is set; nothing else when none is.
\* ----------------------------------------------------------------------
AdvClauses ==
  << [set |-> adv_category # 0,
      text |-> <<" ", "c", "a", "t", "=">> \o search_cat_names(adv_category)],
     [set |-> adv_title # <<>>,
      text |-> <<" ", "t", "i", "t", "l", "e", "=">> \o adv_title],
     [set |-> adv_group # <<>>,
      text |-> <<" ", "g", "r", "o", "u", "p", "=">> \o adv_group],
     [set |-> adv_type # 0,
      text |-> <<" ", "t", "y", "p", "e", "=">> \o adv_type_names(adv_type)],
     [set |-> adv_top200,
      text |-> <<" ", "t", "o", "p", "2", "0", "0", "=", "1">>] >>

ClauseSet(c) == c.set

RECURSIVE Concat(_)
Concat(ss) == IF ss = <<>> THEN <<>> ELSE Head(ss).text \o Concat(Tail(ss))

C10_SearchCommand ==
  pc = "built_search"
    => cmd_out = S_SEARCH \o SP \o Dec(offset) \o SP \o S_20 \o SP
                   \o (IF search_category = 0 THEN <<>>
                       ELSE search_cat_names(search_category) \o SP)
                   \o search_query

\* A category filter and a query of the greatest length the page accepts
C10_Witness ==
  /\ pc = "built_search" /\ search_category = 2
  /\ Len(search_query) = QUERY_MAX /\ offset = LongOffset
  /\ Len(cmd_out) < CMD_SEARCH_SIZE

\* ======================================================================
\* uci_tcp_nextchar on its own: the socket gives a sequence of reads, the
\* caller takes one character after the other and sends no command
\* ======================================================================

MaxReads == 3      \* the reads the socket has to give
MaxGot   == 7      \* the calls of uci_tcp_nextchar

\* char uci_data[UCI_DATA_QUEUE_SZ * 2]: two length bytes and the payload
UCI_DATA_QUEUE_SZ == 896
Capacity == UCI_DATA_QUEUE_SZ * 2

\* A reader that asks for as many bytes as the buffer has room for
ReadLength_room == Capacity - 2

\* uci_socket_read(socketid, UCI_DATA_QUEUE_SZ - 4): the length asked for,
\* which is the most a read gives
ReadLength == UCI_DATA_QUEUE_SZ - 4

\* n bytes of payload
Payload(n) == [i \in 1..n |-> "x"]

\* What a uci_socket_read may give: data (two bytes, one, as many as asked
\* for), the retry value -1, nothing
ReadResults ==
  {Chunk(<<"a", "b">>), Chunk(<<"c">>), Chunk(Payload(ReadLength)),
   RetryChunk, Chunk(<<>>)}

RECURSIVE ReadSeqs(_)
ReadSeqs(n) ==
  IF n = 0 THEN {<<>>}
  ELSE ReadSeqs(n - 1) \cup
       {Append(q, x) : q \in {p \in ReadSeqs(n - 1) : Len(p) = n - 1},
                       x \in ReadResults}

InitRead ==
  /\ pc = "reading"
  /\ user = "browse"
  /\ InitStatics
  /\ net \in ReadSeqs(MaxReads) /\ peer_closed \in BOOLEAN
  /\ InitChannel
  /\ rnote = [NoRNote EXCEPT !.fed = net]
  /\ key = "" /\ sent = <<>> /\ reads = 0 /\ rsp = NoResponse
  /\ insync = TRUE /\ hdr_lb = <<>> /\ prev = NoPrev
  /\ rare = 0 /\ cmds = 0 /\ cmd_out = <<>>
  /\ sock_log = <<"connect">>

\* One call of uci_tcp_nextchar; the call does not return while the socket
\* has nothing to give and the peer has not closed
NextChar ==
  /\ pc = "reading" /\ Len(rnote.got) < MaxGot
  /\ LET r == uci_tcp_nextchar(IoRec)
     IN  /\ SetIo(r.io)
         /\ pc' = IF r.io.blocked THEN "hung" ELSE "reading"
         /\ rnote' = IF r.io.blocked THEN rnote
                     ELSE [rnote EXCEPT !.got = Append(@, r.c)]
  /\ UNCHANGED <<connVars, listVars, cursor, current_page, current_category,
                 searchVars, advVars, setVars, infoVars, key, rsp, insync,
                 hdr_lb, prev, rare, cmds, user, sock_log, cmd_out,
                 uci_target, uci_pc, call, chan, wr, unote>>

NextRead == NextChar

SpecRead == InitRead /\ [][NextRead]_vars

\* ======================================================================
\* uci_tcp_nextchar with socket writes between the calls: the caller takes
\* characters and, now and then, writes to the socket
\* ======================================================================

MaxWrites == 2     \* the calls of uci_socket_write

IsByte(c) == c # NUL
\* The bytes uci_tcp_nextchar has returned, without the 0 of end of file
BytesGot == SelectSeq(rnote.got, IsByte)

\* One call of uci_socket_write(socket_id, "Q").  rnote.lost notes what the
\* buffer held unread when the call was made, and after how many bytes
SocketWrite ==
  /\ pc = "reading" /\ rnote.writes < MaxWrites
  /\ SetIo([uci_socket_write(IoRec) EXCEPT !.sent = Append(@, <<"Q">>)])
  /\ pc' = pc
  /\ rnote' = [rnote EXCEPT !.writes = @ + 1,
                            !.lost = Append(@, [at |-> Len(BytesGot),
                                                d  |-> Unread(IoRec)])]
  /\ UNCHANGED <<connVars, listVars, cursor, current_page, current_category,
                 searchVars, advVars, setVars, infoVars, key, rsp, insync,
                 hdr_lb, prev, rare, cmds, user, sock_log, cmd_out,
                 uci_target, uci_pc, call, chan, wr, unote>>

NextWrite == NextChar \/ SocketWrite

SpecWrite == InitRead /\ [][NextWrite]_vars

\* ----------------------------------------------------------------------
\* uci_tcp_nextline alone: a byte stream the server sends, split into
\* socket reads in every way, with the retry value -1 before any read;
\* next to it the same calls on the stream given in one read (the twin)
MaxStream    == 4      \* the bytes of the stream
MaxLineCalls == 5      \* the calls of uci_tcp_nextline

StreamBytes == {"a", LF, CR}

RECURSIVE Streams(_)
Streams(n) ==
  IF n = 0 THEN {<<>>}
  ELSE Streams(n - 1) \cup
       {Append(q, x) : q \in {p \in Streams(n - 1) : Len(p) = n - 1},
                       x \in StreamBytes}

\* Every way of giving the bytes s in reads of one byte or more, each read
\* with or without a retry before it
RECURSIVE Splits(_)
Splits(s) ==
  IF s = <<>> THEN {<<>>}
  ELSE UNION { UNION { { <<Chunk(SubSeq(s, 1, k))>> \o q,
                         <<RetryChunk, Chunk(SubSeq(s, 1, k))>> \o q }
                       : q \in Splits(SubSeq(s, k + 1, Len(s))) }
               : k \in 1..Len(s) }

\* The stream in one read
Whole(s) == IF s = <<>> THEN <<>> ELSE <<Chunk(s)>>

InitLine ==
  /\ pc = "lines"
  /\ user = "browse"
  /\ InitStatics
  /\ \E s \in Streams(MaxStream) :
       /\ net \in Splits(s)
       /\ peer_closed \in BOOLEAN
       /\ rnote = [NoRNote EXCEPT !.fed = net,
                                  !.twin = [IoRec EXCEPT !.net = Whole(s)]]
  /\ InitChannel
  /\ key = "" /\ sent = <<>> /\ reads = 0 /\ rsp = NoResponse
  /\ insync = TRUE /\ hdr_lb = <<>> /\ prev = NoPrev
  /\ rare = 0 /\ cmds = 0 /\ cmd_out = <<>>
  /\ sock_log = <<"connect">>

\* What a call of uci_tcp_nextline gave: the line stored and the value
\* returned
LineGot(r) == [line |-> CStr(r.io.lb, 0), flag |-> r.flag]

\* One call of uci_tcp_nextline(socket_id, line_buffer), and the same call
\* on the twin
NextLine ==
  /\ pc = "lines" /\ Len(rnote.lines) < MaxLineCalls
  /\ LET r == uci_tcp_nextline(IoRec)
         t == uci_tcp_nextline(rnote.twin)
     IN  /\ SetIo(r.io)
         /\ pc' = IF r.io.blocked THEN "hung" ELSE "lines"
         /\ rnote' = [rnote EXCEPT
                        !.lines  = IF r.io.blocked THEN @
                                   ELSE Append(@, LineGot(r)),
                        !.twin   = t.io,
                        !.tlines = IF t.io.blocked THEN @
                                   ELSE Append(@, LineGot(t))]
  /\ UNCHANGED <<connVars, listVars, cursor, current_page, current_category,
                 searchVars, advVars, setVars, infoVars, key, rsp, insync,
                 hdr_lb, prev, rare, cmds, user, sock_log, cmd_out,
                 uci_target, uci_pc, call, chan, wr, unote>>

NextLines == NextLine

SpecLine == InitLine /\ [][NextLines]_vars

\* ----------------------------------------------------------------------
\* do_search alone: search_query with search_category, start 0, run again
\* and again from a page state of any kind, the server answering each run
\* as it answered the first
MaxRuns == 2

\* The result page: the items held, and the three numbers
ResultPage ==
  [ids |-> SubSeq(item_ids, 1, item_count),
   names |-> SubSeq(item_names, 1, item_count),
   item_count |-> item_count, offset |-> offset, total_count |-> total_count]

InitSearch ==
  /\ pc = "nav"
  /\ user = "search"
  /\ socket_id = 0 /\ connected = TRUE /\ uci_status = <<"0", "0", ",", "O", "K">>
  /\ item_count \in {0, 2}
  /\ item_names = [i \in 1..MAX_ITEMS |-> IF i <= item_count THEN CatName(i) ELSE <<>>]
  /\ item_ids = [i \in 1..MAX_ITEMS |-> IF i <= item_count THEN i + 7 ELSE 0]
  /\ total_count \in {0, 7}
  /\ cursor \in {0, 1}
  /\ offset \in {0, PAGE_SIZE}
  /\ current_page \in {PAGE_CATS, PAGE_LIST, PAGE_SEARCH}
  /\ current_category = <<>>
  /\ search_query = <<"a", "b">> /\ search_category \in {0, 1}
  /\ adv_cursor = 0 /\ adv_editing = FALSE /\ adv_edit_pos = 0
  /\ adv_category = 0 /\ adv_title = <<>> /\ adv_group = <<>>
  /\ adv_type = 0 /\ adv_top200 = FALSE
  /\ settings_cursor = 0 /\ settings_edit_pos = 0 /\ settings_editing = FALSE
  /\ server_host = DEFAULT_SERVER_HOST
  /\ line_buffer \in {<<".", NUL>>, <<"O", "K", " ", "9", " ", "9", NUL>>}
  /\ info_return_page = PAGE_CATS
  /\ info_labels = [i \in 1..MAX_INFO_LINES |-> <<>>]
  /\ info_values = [i \in 1..MAX_INFO_LINES |-> <<>>]
  /\ info_line_count = 0
  /\ uci_data = <<>> /\ uci_data_index = 0 /\ uci_data_len = 0
  /\ net = <<>> /\ peer_closed = FALSE
  /\ InitNotes
  /\ sock_log = <<"connect", "io">>

\* do_search(search_query, 0); from the second run on the server gives the
\* response it gave before
SearchRun ==
  /\ pc = "nav" /\ cmds < MaxRuns
  /\ \E r \in SearchServer :
       /\ cmds > 0 => (r.d = rsp /\ ~peer_closed)
       /\ do_search("search", search_query, search_category, 0, r)
  /\ rnote' = [rnote EXCEPT !.page = ResultPage]
  /\ UNCHANGED <<connVars, current_category, searchVars, advVars, setVars,
                 infoVars, cmd_out, uci_target, uci_pc, call, chan, wr, unote>>

NextSearch == SearchRun

SpecSearch == InitSearch /\ [][NextSearch]_vars

\* ----------------------------------------------------------------------
\* C11: fetch_info, answered with "OK", body lines and the terminator,
\* keeps the pairs "<label>|<value>" whose value is not empty, in the
\* server's order and at most 12 of them, has consumed every line through
\* the terminator when it returns, and succeeds (the Info page is shown)
\* exactly when it kept at least one pair; when every value is empty
\* nothing is kept and it fails.
\* ----------------------------------------------------------------------
InfoPair(b) == b.k = "entry"

InfoKept(r) ==
  SubSeq(SelectSeq(Body(r), InfoPair), 1,
         Min(MAX_INFO_LINES, Len(SelectSeq(Body(r), InfoPair))))

C11_InfoRetained ==
  (rsp.kind = "INFO" /\ insync /\ rsp.hdr = "ok" /\ EndsAtTerm(rsp))
    => /\ pc = "nav"
       /\ info_line_count = Len(InfoKept(rsp))
       /\ \A j \in 1..Len(InfoKept(rsp)) :
            /\ info_labels[j] = StrNCpy(<<"L">> \o Dec(InfoKept(rsp)[j].i), LABEL_MAX)
            /\ info_values[j] = StrNCpy(<<"V">> \o Dec(InfoKept(rsp)[j].i), NAME_MAX)
       /\ ~Pending
       /\ (current_page = PAGE_INFO) <=> (info_line_count > 0)

\* Two pairs kept of four lines, one with an empty value and one with no
\* separator among them
C11_Witness ==
  /\ Returned("INFO") /\ insync /\ rsp.hdr = "ok" /\ EndsAtTerm(rsp)
  /\ Len(rsp.body) = 4 /\ info_line_count = 2
  /\ info_labels[2] = <<"L", "3">> /\ info_values[2] = <<"V", "3">>
  /\ current_page = PAGE_INFO /\ ~Pending

\* Every value empty: nothing kept, the page stays
C11_AllEmpty ==
  /\ Returned("INFO") /\ insync /\ rsp.hdr = "ok" /\ EndsAtTerm(rsp)
  /\ Len(rsp.body) = 2 /\ rsp.body[1].k = "empty"
  /\ info_line_count = 0 /\ current_page # PAGE_INFO

\* ----------------------------------------------------------------------
\* C12: in a CATS, LIST, SEARCH, ADVSEARCH or INFO response a body line
\* that starts with '.' ends the body although it has '|' separators: it
\* is not stored, and the operation reads no line after it (the lines the
\* server sent after it are still unread when the operation returns).
\* ----------------------------------------------------------------------
MultiLineKinds == {"CATS", "LIST", "SEARCH", "ADVSEARCH", "INFO"}

\* The lines of r after its first body line that starts with '.'
AfterDot(r) ==
  SubSeq(ResponseLines(r), DotAt(r) + 2, Len(ResponseLines(r)))

RECURSIVE ChunkBytes(_)
ChunkBytes(q) == IF q = <<>> THEN <<>> ELSE Head(q).d \o ChunkBytes(Tail(q))

\* What the client has not read of what the server sent
UnreadBytes == Unread(IoRec) \o ChunkBytes(net)

\* The number of items or pairs the operation that got r is to keep
KeptCount(r) ==
  CASE r.kind = "INFO" -> Len(InfoKept(r))
    [] r.kind = "CATS" -> Min(MAX_ITEMS, Len(SelectSeq(Body(r), HasIdAndName)))
    [] OTHER -> Len(Kept(r))

C12_DotEndsBody ==
  (rsp.kind \in MultiLineKinds /\ insync /\ DotAt(rsp) > 0)
    => /\ pc = "nav"
       /\ (IF rsp.kind = "INFO" THEN info_line_count ELSE item_count) = KeptCount(rsp)
       /\ UnreadBytes = JoinLines(AfterDot(rsp))

\* One entry kept of "1|..", ".2|..", "3|..": the third line and the line
\* "." are unread
C12_Witness ==
  /\ Returned("LIST") /\ insync /\ DotAt(rsp) = 2
  /\ item_count = 1 /\ item_ids[1] = 1
  /\ UnreadBytes = JoinLines(<<EntryLine(B("entry", 3)), <<".">> >>)

\* ----------------------------------------------------------------------
\* C13: a next-page key on the List or the Advanced-results page sends the
\* query of the page again (the same category, the same filters) with
\* offset + 20, a previous-page key sends it with max(offset - 20, 0); the
\* page size in the command is 20 and the offset is not negative.
\* ----------------------------------------------------------------------
Max(a, b) == IF a > b THEN a ELSE b

\* The command of the page the key was pressed on, for the offset start
PageCommand(start) ==
  IF prev.page = PAGE_LIST
  THEN list_cmd(current_category, start)
  ELSE adv_search_cmd(start, adv_category, adv_title, adv_group, adv_type,
                      adv_top200)

max_display == 19     \* the rows draw_adv_results shows

ResultPages == {PAGE_LIST, PAGE_SEARCH, PAGE_ADV_RESULTS}

AtFirstRow == cursor = 0 /\ offset > 0
AtLastRow ==
  /\ item_count > 0 /\ cursor = Min(item_count - 1, max_display - 1)
  /\ offset + item_count < total_count

\* The claim for the pages of the set pages: at the edge the key's branch is
\* the fetch, and the fetch that returned left the offset and the cursor
\* as stated
EdgeFetch(pages) ==
  /\ (pc = "nav" /\ current_page \in pages /\ AtFirstRow) => G_u_fetch
  /\ (pc = "nav" /\ current_page \in pages /\ AtLastRow) => G_d_fetch
  /\ (pc = "nav" /\ key = "u" /\ prev.cursor = 0 /\ prev.offset > 0)
       => /\ prev.page \in pages
          /\ Len(sent) = 1 /\ CommandWord(sent[1]) \in {S_LIST, S_SEARCH, S_ADVSEARCH}
          /\ offset = Max(prev.offset - 20, 0)
          /\ cursor = Min(item_count - 1, max_display - 1)
  /\ (pc = "nav" /\ key = "d" /\ prev.item_count > 0
        /\ prev.cursor = Min(prev.item_count - 1, max_display - 1)
        /\ prev.offset + prev.item_count < prev.total_count)
       => /\ prev.page \in pages
          /\ Len(sent) = 1 /\ CommandWord(sent[1]) \in {S_LIST, S_SEARCH, S_ADVSEARCH}
          /\ offset = prev.offset + 20
          /\ cursor = 0

C14_EdgeFetch == EdgeFetch({PAGE_ADV_RESULTS})

\* The claim as it was stated, for every page that shows results
C14_EdgeFetchEveryPage == EdgeFetch(ResultPages)

\* An up key at the top of the second page fetched a first page of 20
\* results: the cursor is on row 18, the last of the 19 rows shown
C14_Witness ==
  /\ pc = "nav" /\ key = "u" /\ prev.offset = 20 /\ offset = 0
  /\ item_count = 20 /\ cursor = 18

\* ----------------------------------------------------------------------
\* C15: in the navigation loop, whenever the list is not empty
\* (item_count > 0), 0 <= cursor <= item_count - 1; this holds after every
\* key, the page fetches of up and down at the edges of a page included.
\* ----------------------------------------------------------------------
C15_CursorInList ==
  (pc = "nav" /\ item_count > 0) => (0 <= cursor /\ cursor <= item_count - 1)

\* A down key at the last row fetched a page shorter than the row it left
C15_Witness ==
  /\ pc = "nav" /\ key = "d" /\ prev.cursor > 0
  /\ item_count > 0 /\ item_count <= prev.cursor /\ cursor = 0

\* ----------------------------------------------------------------------
\* C16: on quit QUIT is written to the socket before the socket is closed;
\* the socket is closed once; no socket call follows the close; the
\* session issues at most one connect, and no socket call before it.
\* ----------------------------------------------------------------------
Count(log, x) == Cardinality({i \in 1..Len(log) : log[i] = x})

C16_SessionEnd ==
  /\ Count(sock_log, "connect") <= 1
  /\ Count(sock_log, "close") <= 1
  /\ \A i \in 1..Len(sock_log) :
       /\ sock_log[i] = "connect" <=> i = 1
       /\ sock_log[i] = "close"
            => (i = Len(sock_log) /\ i > 1 /\ sock_log[i - 1] = "quit")
  /\ (pc = "exit" /\ key = "q")
       => (Count(sock_log, "close") = 1 /\ sent = <<S_QUIT>> /\ ~connected)

\* The user quit after the categories were loaded
C16_Witness ==
  /\ pc = "exit" /\ key = "q"
  /\ sock_log = <<"connect", "io", "quit", "close">>

\* ----------------------------------------------------------------------
\* C20: whatever the socket reads give (data, the retry value, an empty
\* read) and with no command in between, the successive calls of
\* uci_tcp_nextchar return the bytes of the data reads in order, each once;
\* a retry makes it read again and is not returned; an empty read makes it
\* return 0.
\* ----------------------------------------------------------------------
\* What the calls are to return for the reads q, in order
RECURSIVE Expected(_)
Expected(q) ==
  IF q = <<>> THEN <<>>
  ELSE (IF Head(q).n > 0 THEN Head(q).d
        ELSE IF Head(q).n = 0 THEN <<NUL>> ELSE <<>>) \o Expected(Tail(q))

C20_NextChar ==
  pc \in {"reading", "hung"}
    => /\ \A i \in 1..Len(rnote.got) :
            rnote.got[i] = IF i <= Len(Expected(rnote.fed))
                           THEN Expected(rnote.fed)[i] ELSE NUL
       /\ Len(rnote.got) > Len(Expected(rnote.fed)) => peer_closed
       /\ pc = "hung" => (rnote.got = Expected(rnote.fed) /\ ~peer_closed)

\* Data, a retry, data, then the peer has closed: the three bytes in order
\* and 0 at end of file
C20_Witness ==
  /\ pc = "reading"
  /\ rnote.fed = <<Chunk(<<"a", "b">>), RetryChunk, Chunk(<<"c">>)>>
  /\ rnote.got = <<"a", "b", "c", NUL>>

\* ----------------------------------------------------------------------
\* C17: in every run of the library calls the program makes (settings
\* load and save, connect, socket read, write and close), a command is
\* submitted only when the accept of the command before it has been written
\* and has been seen to complete: from the start of a submission up to
\* its push no earlier command is still unacknowledged, and no push is
\* ever written while one is.
C17_AcceptBetween ==
  /\ uci_pc \in {"send", "idle5", "idle4", "write", "push"} => ~unote.open
  /\ ~unote.clash

\* A second command has been taken after the first one's accept completed
C17_Witness ==
  uci_pc = "check" /\ unote.open /\ unote.accepted /\ ~chan.error

\* ----------------------------------------------------------------------
\* C18: uci_sendcommand writes the frame only after it has seen the
\* channel idle (and the channel is idle then); the frame it pushes is
\* the caller's with the selected target as its first byte; what it does
\* in one call is rounds of "idle seen, frame written, push", each round
\* but the last followed by a clear-error that leaves the error flag
\* clear; and when it returns the last thing it did was a push after
\* which it found no error flag, the command was taken and the channel
\* is busy no more.
Round == <<"idle", "frame", "push", "clr">>

InRounds(log) == \A i \in 1..Len(log) : log[i] = Round[((i - 1) % 4) + 1]

C18_Submit ==
  /\ InRounds(unote.log)
  /\ uci_pc \in {"write", "push"} => chan.state = "idle"
  /\ uci_pc = "push" =>
       /\ wr = <<uci_target>> \o Tail(call.bytes)
       /\ Len(wr) = Len(call.bytes)
  /\ uci_pc \in {"send", "idle5", "idle4", "write"} => wr = <<>>
  /\ (uci_pc \in {"idle5", "idle4"} /\ unote.log # <<>>) =>
       (Len(unote.log) % 4 = 0 /\ ~chan.error)
  /\ uci_pc = "sent" =>
       /\ Len(unote.log) % 4 = 3
       /\ ~chan.error /\ unote.open
       /\ chan.state # "busy"

\* A submission that returned after one round that ended in an error
C18_Witness ==
  uci_pc = "sent" /\ Len(unote.log) = 7 /\ call.fn = "uci_socket_read"

\* ----------------------------------------------------------------------
\* C19: with a controller that goes on working (it completes the command
\* it is busy with, answers an accept, becomes idle) and raises the error
\* flag on finitely many pushes, every call of uci_sendcommand returns,
\* with the error flag clear, whatever the number of rounds it took.
C19_SubmitReturns ==
  (uci_pc = "send") ~> (uci_pc = "sent" /\ ~chan.error)

\* A submission that returned after as many failed rounds as the
\* controller raises errors
C19_Witness ==
  uci_pc = "sent" /\ unote.errs = MaxErrors /\ Len(unote.log) = 4 * MaxErrors + 3

\* ----------------------------------------------------------------------
\* The lines a byte stream holds, from the bytes alone: each line feed
\* ends a line; what follows the last line feed is a line only when the
\* peer has closed, and ends at end of file
FirstLF(s) ==
  IF \E i \in 1..Len(s) : s[i] = LF
  THEN CHOOSE i \in 1..Len(s) : s[i] = LF /\ \A j \in 1..(i - 1) : s[j] # LF
  ELSE 0

Printable(s) == SelectSeq(s, LAMBDA c : c \notin {CR, LF})

RECURSIVE LinesOf(_, _)
LinesOf(s, closed) ==
  IF FirstLF(s) > 0
  THEN <<[line |-> Printable(SubSeq(s, 1, FirstLF(s) - 1)), eof |-> FALSE]>>
       \o LinesOf(SubSeq(s, FirstLF(s) + 1, Len(s)), closed)
  ELSE IF closed THEN <<[line |-> Printable(s), eof |-> TRUE]>>
  ELSE <<>>

\* The i-th line of the stream; past the stream's end every call is at end
\* of file with nothing read
LineAt(L, i) == IF i <= Len(L) THEN L[i] ELSE [line |-> <<>>, eof |-> TRUE]

StreamLines == LinesOf(ChunkBytes(rnote.fed), peer_closed)

\* The calls of uci_tcp_nextline so far gave the lines of the stream, in
\* order, and went on past the stream's end only with the peer closed
LinesAsSent ==
  /\ \A i \in 1..Len(rnote.lines) :
       rnote.lines[i].line = LineAt(StreamLines, i).line
  /\ Len(rnote.lines) > Len(StreamLines) => peer_closed
  /\ pc = "hung" => (Len(rnote.lines) = Len(StreamLines) /\ ~peer_closed)

C22_SplitIndependent ==
  /\ rnote.lines = rnote.tlines
  /\ (pc = "hung") = rnote.twin.blocked

\* A line split across two reads with a retry between them
C22_Witness ==
  /\ rnote.fed = <<Chunk(<<"a">>), RetryChunk, Chunk(<<"a", LF>>), Chunk(<<"a">>)>>
  /\ rnote.twin.net = <<>> /\ rnote.twin.index = 4
  /\ rnote.lines = << [line |-> <<"a", "a">>, flag |-> TRUE],
                      [line |-> <<"a">>, flag |-> TRUE] >>

\* ----------------------------------------------------------------------
\* C23: do_search(query, 0) run again with the same query and category,
\* the server giving the same response (header, entries, terminator, and
\* nothing after the line that ends it), leaves the result page the run
\* before left: the same ids and names in the same order, the same
\* item_count, offset and total_count, whatever the page was before the
\* first run.
C23_SearchAgain ==
  (pc = "nav" /\ rsp.kind = "SEARCH" /\ cmds >= 2 /\ EndsAtTerm(rsp))
    => (ResultPage = rnote.page /\ current_page = PAGE_SEARCH /\ ~Pending)

\* The second run after a first one that started from a page with other
\* items and another total, the header giving no total
C23_Witness ==
  /\ pc = "nav" /\ cmds = 2 /\ rsp.kind = "SEARCH" /\ rsp.hdr = "ok1"
  /\ item_count = 2 /\ total_count = 7 /\ rnote.page.total_count = 7
  /\ rnote.page.ids = <<1, 2>>

\* The same without the condition on what follows the line that ends the
\* response: bytes the first run left unread are the second run's header
C23_SearchAgainAnyStream ==
  (pc = "nav" /\ rsp.kind = "SEARCH" /\ cmds >= 2) => ResultPage = rnote.page

\* ----------------------------------------------------------------------
\* The '|' in a line, and the body lines of response r with m of them or
\* more, as many as an entry operation keeps: the first min(n, 20)
SepCount(line) == Len(SelectSeq(line, LAMBDA c : c = "|"))

WithSeps(r, m) ==
  SelectSeq(Body(r), LAMBDA b : SepCount(EntryLine(b)) >= m)

StoredOf(r, m) ==
  SubSeq(WithSeps(r, m), 1, Min(Min(r.n, MAX_ITEMS), Len(WithSeps(r, m))))

EntriesAre(S) ==
  /\ item_count = Len(S)
  /\ \A j \in 1..Len(S) : item_ids[j] = S[j].i

InfoOpens == current_page # PAGE_INFO /\ current_page' = PAGE_INFO

C25_InfoRoundTrip ==
  [][ /\ InfoOpens =>
           /\ current_page \in ResultPages
           /\ info_return_page' = current_page
           /\ UNCHANGED <<listVars, cursor>>
      /\ current_page = PAGE_INFO =>
           /\ UNCHANGED <<listVars, cursor, info_return_page>>
           /\ current_page' \in {PAGE_INFO, info_return_page} ]_vars

\* Back on the advanced results after Info, the cursor on the second item
C25_Witness ==
  /\ pc = "nav" /\ current_page = PAGE_ADV_RESULTS
  /\ info_return_page = PAGE_ADV_RESULTS /\ info_line_count > 0
  /\ key = "" /\ item_count = 2 /\ cursor = 1

\* ----------------------------------------------------------------------
\* The bytes uci_data holds after a read: the two length bytes and the
\* payload
Held == 2 + Len(uci_data)

\* C26: whenever uci_tcp_nextchar has returned, uci_data holds fewer bytes
\* than its capacity of 1792, uci_data_len is the payload length and is
\* not negative, the read index is not negative, and it is at most the
\* payload length when the last read gave data (after a read of length 0
\* it keeps the value it had).
C26_BufferBounds ==
  pc = "reading" =>
    /\ Held < Capacity
    /\ uci_data_len = Len(uci_data)
    /\ 0 <= uci_data_index
    /\ uci_data_len > 0 => uci_data_index <= uci_data_len

\* C26 as stated: the read index is at most the payload length after
\* every read.
C26_IndexWithinLength ==
  pc = "reading" =>
    /\ Held < Capacity
    /\ 0 <= uci_data_index /\ uci_data_index <= uci_data_len

\* A read of the full length asked for, after two bytes and a retry
C26_Witness ==
  /\ pc = "reading"
  /\ rnote.fed = <<Chunk(<<"a", "b">>), RetryChunk, Chunk(Payload(ReadLength))>>
  /\ Held = UCI_DATA_QUEUE_SZ - 2 /\ uci_data_index = 1 /\ net = <<>>


\* ----------------------------------------------------------------------
\* C27: when the header line of the answer to INFO begins with 'E',
\* fetch_info returns failure after reading exactly that one line: the
\* program goes on at the page the information was asked from (never the
\* Info page), and the items, their count, the offset, the total and the
\* cursor are what they were.  The step is the one that leaves an INFO
\* answer with an error header in rsp, sent with nothing unread before it.
InfoError(r, sync) == r.kind = "INFO" /\ r.hdr = "err" /\ sync
C27_InfoError ==
  [][InfoError(rsp', insync')
       => /\ pc' = "nav"
          /\ CStr(line_buffer', 0) = S_ERR
          /\ (~Pending)'
          /\ current_page' = current_page /\ current_page' # PAGE_INFO
          /\ UNCHANGED <<listVars, cursor>>]_vars
C27_Witness ==
  /\ InfoError(rsp, insync) /\ pc = "nav" /\ key = "i"
  /\ current_page = PAGE_LIST /\ item_count > 0 /\ prev.page = PAGE_LIST


\* ----------------------------------------------------------------------
\* The page graph of main().  A place is <<current_page, info_return_page>>.
\* NavStep(s) holds the places one handler can lead to from s, one edge per
\* assignment to current_page: load_entries (377) from case '>' and case
\* '\r' on Categories, case 'c' (1192), case '/' (1203), the settings
\* exits (1376, 1442), load_categories (312) from case 8, the form's
\* search (1408), case 8 on the results (1501), case 'i' (1541-1545) and
\* case 'x' (1554).  do_search (453) is called on the Search page only
\* (1226, 1455, 1575) and adds no edge.
Pages == {PAGE_CATS, PAGE_LIST, PAGE_SEARCH, PAGE_SETTINGS, PAGE_ADV_SEARCH,
          PAGE_ADV_RESULTS, PAGE_INFO}
NavStep(s) ==
  LET p == s[1]
      r == s[2]
  IN  (IF p = PAGE_CATS
       THEN {<<PAGE_LIST, r>>, <<PAGE_SETTINGS, r>>, <<PAGE_ADV_SEARCH, r>>}
       ELSE {})
      \cup (IF p \in {PAGE_LIST, PAGE_SEARCH, PAGE_SETTINGS, PAGE_ADV_SEARCH}
            THEN {<<PAGE_CATS, r>>} ELSE {})
      \cup (IF p = PAGE_ADV_SEARCH THEN {<<PAGE_ADV_RESULTS, r>>} ELSE {})
      \cup (IF p = PAGE_ADV_RESULTS THEN {<<PAGE_ADV_SEARCH, r>>} ELSE {})
      \cup (IF p \in {PAGE_LIST, PAGE_SEARCH, PAGE_ADV_RESULTS}
            THEN {<<p, p>>, <<PAGE_INFO, p>>} ELSE {})
      \cup (IF p = PAGE_INFO THEN {<<r, r>>} ELSE {})

RECURSIVE NavReach(_)
NavReach(S) ==
  LET T == S \cup UNION {NavStep(s) : s \in S}
  IN  IF T = S THEN S ELSE NavReach(T)

\* The pages some sequence of keys leads to from the place the program is at
NavPlace == <<current_page, info_return_page>>
ReachablePages == {s[1] : s \in NavReach({NavPlace})}

\* Every step of main moves along an edge of the page graph or stays
NavMove == NavPlace' \in NavStep(NavPlace) \cup {NavPlace}
NavCovered == [][NavMove]_vars
\* and the Search page is never the current page
SearchNeverShown == current_page # PAGE_SEARCH

\* C28: every page of the navigation state machine is reachable from the
\* initial Categories page by some sequence of keys; in particular the
\* Search page is.
C28_EveryPageReachable ==
  (current_page = PAGE_CATS /\ info_return_page = PAGE_CATS)
    => Pages \subseteq ReachablePages


\* ----------------------------------------------------------------------
\* C29: a RUN command is sent only while the current page is List, Search
\* or AdvancedResults, and no key delivered while the Info page is shown
\* (Return is one) makes the program send RUN or any other command.  prev
\* is the page at which the key of the step was pressed.
C29_RunOnlyOnResults ==
  /\ \A i \in 1..Len(sent) :
       CommandWord(sent[i]) = S_RUN => prev.page \in ResultPages
  /\ (key # "" /\ prev.page = PAGE_INFO) => sent = <<>>


\* ----------------------------------------------------------------------
\* C30: no received byte is lost, also when socket writes come between the
\* reads: the bytes uci_tcp_nextchar has returned, followed by what is
\* still unread (in the buffer and on the socket), are the bytes the
\* server sent; a write discards nothing of the buffer.
C30_NoByteLost ==
  pc \in {"reading", "hung"} => BytesGot \o UnreadBytes = ChunkBytes(rnote.fed)

\* g with the bytes of the entries of L put back where they were dropped
RECURSIVE PutBack(_, _)
PutBack(g, L) ==
  IF L = <<>> THEN g
  ELSE LET h == L[Len(L)]
       IN  PutBack(SubSeq(g, 1, h.at) \o h.d \o SubSeq(g, h.at + 1, Len(g)),
                   SubSeq(L, 1, Len(L) - 1))

\* C30, as the code has it: the bytes returned, with the bytes that each
\* socket write found unread in the buffer put back at their places, and
\* followed by what is still unread, are the bytes the server sent.  A byte
\* is lost only by a write made while the buffer holds unread bytes, and
\* that write loses exactly those; the bytes not yet fetched are kept.
C30_LostByWriteOnly ==
  pc \in {"reading", "hung"}
    => PutBack(BytesGot, rnote.lost) \o UnreadBytes = ChunkBytes(rnote.fed)

\* "a", a write that drops "b", then "c" of the next read
C30_Witness ==
  /\ pc = "reading"
  /\ rnote.fed = <<Chunk(<<"a", "b">>), Chunk(<<"c">>)>>
  /\ rnote.got = <<"a", "c">>
  /\ rnote.lost = <<[at |-> 1, d |-> <<"b">>]>>


\* ----------------------------------------------------------------------
\* C31: the selected item is used (item_names[cursor] by the select of the
\* Categories page, item_ids[cursor] by run and info) only when
\* 0 <= cursor < item_count; a select on the Categories page with an empty
\* list sends no LIST.  prev holds cursor, item_count and the page at which
\* the key of the step was pressed.
UsesSelected ==
  \/ key \in {">", K_RETURN} /\ prev.page = PAGE_CATS /\ sent # <<>>
  \/ \E i \in 1..Len(sent) : CommandWord(sent[i]) \in {S_RUN, S_INFO}
C31_SelectedInRange ==
  UsesSelected => (0 <= prev.cursor /\ prev.cursor < prev.item_count)

\* Run and info use the selected item within the list
RunInfoInRange ==
  (\E i \in 1..Len(sent) : CommandWord(sent[i]) \in {S_RUN, S_INFO})
    => (0 <= prev.cursor /\ prev.cursor < prev.item_count)


\* ----------------------------------------------------------------------
\* The cursor moves of the AdvancedResults page that fetch nothing, on a
\* page of n items: case 'u' with cursor > 0 (1251-1256), case 'd' with
\* cursor < item_count - 1 && cursor < max_visible (1299-1304)
CursorStep(c, n) ==
  (IF c > 0 THEN {c - 1} ELSE {})
  \cup (IF c < n - 1 /\ c < ADV_VISIBLE THEN {c + 1} ELSE {})

RECURSIVE CursorReach(_, _)
CursorReach(S, n) ==
  LET T == S \cup UNION {CursorStep(c, n) : c \in S}
  IN  IF T = S THEN S ELSE CursorReach(T, n)

\* Every step that stays on the AdvancedResults page and sends no command
\* moves the cursor by CursorStep or leaves it
CursorMove ==
  (current_page = PAGE_ADV_RESULTS /\ current_page' = PAGE_ADV_RESULTS
     /\ sent' = <<>>)
    => (cursor' \in CursorStep(cursor, item_count) \cup {cursor}
        /\ item_count' = item_count)
CursorCovered == [][CursorMove]_vars

\* C32: on the AdvancedResults page every item of the loaded page can be
\* selected: for each i with 0 <= i < item_count some sequence of up and
\* down keys puts the cursor on i without a fetch.
C32_EveryItemSelectable ==
  (pc = "nav" /\ current_page = PAGE_ADV_RESULTS)
    => \A i \in 0..(item_count - 1) : i \in CursorReach({cursor}, item_count)


\* ----------------------------------------------------------------------
\* C33: for every filter state of the form (title and group of up to 22
\* characters, any category, type and top200) and every offset, the line
\* do_adv_search builds with sprintf and strcat has at most 95 characters:
\* it fits with its NUL in cmd[96].
C33_AdvCommandFits ==
  pc = "built_adv"
    => Len(adv_search_cmd(offset, adv_category, adv_title, adv_group,
                          adv_type, adv_top200)) <= CMD_ADV_SIZE - 1


\* ----------------------------------------------------------------------
\* C34: a next-page fetch (key 'n', or down at the edge of the page) is
\* made only when offset + item_count < total_count, a previous-page fetch
\* (key 'p', or up at the edge) only when offset > 0; a key of the List or
\* AdvancedResults page that sends no command leaves the items, offset
\* and total_count as they are.  The guards are those of the state the key
\* is pressed in.
PagedPages == {PAGE_LIST, PAGE_ADV_RESULTS}
FetchGuard ==
  /\ (key' \in {"n", "d"} /\ sent' # <<>>)
       => (current_page \in PagedPages /\ offset + item_count < total_count)
  /\ (key' \in {"p", "u"} /\ sent' # <<>>)
       => (current_page \in PagedPages /\ offset > 0)
  /\ (current_page \in PagedPages /\ sent' = <<>>) => UNCHANGED listVars
C34_FetchGuards == [][FetchGuard]_vars

\* A 'p' on the second page has fetched the first: no page before it now
C34_Witness ==
  /\ pc = "nav" /\ key = "p" /\ sent # <<>>
  /\ prev.offset = PAGE_SIZE /\ offset = 0 /\ item_count > 0


\* ----------------------------------------------------------------------
\* C35: in every state of the navigation loop the page offset is a
\* non-negative multiple of 20.
C35_OffsetMultiple ==
  pc = "nav" => (offset >= 0 /\ offset % PAGE_SIZE = 0)

\* An up key at the top of the third page has fetched the second
C35_Witness ==
  /\ pc = "nav" /\ key = "u" /\ sent # <<>>
  /\ prev.offset = 2 * PAGE_SIZE /\ offset = PAGE_SIZE


\* ----------------------------------------------------------------------
\* C36: the search of the AdvancedSearchForm (Return on its search field)
\* moves to the AdvancedResults page if and only if the response yielded at
\* least one item; with no item the page stays AdvancedSearchForm; the
\* filter values are what they were.
FormSearch ==
  (current_page = PAGE_ADV_SEARCH /\ key' = K_RETURN /\ sent' # <<>>
     /\ pc' = "nav")
    => /\ (current_page' = PAGE_ADV_RESULTS) <=> (item_count' > 0)
       /\ item_count' = 0 => current_page' = PAGE_ADV_SEARCH
       /\ UNCHANGED <<adv_category, adv_title, adv_group, adv_type, adv_top200>>
C36_FormSearch == [][FormSearch]_vars

\* A search with a filter set that found nothing
C36_Witness ==
  /\ pc = "nav" /\ key = K_RETURN /\ prev.page = PAGE_ADV_SEARCH
  /\ CommandWord(sent[1]) = S_ADVSEARCH
  /\ item_count = 0 /\ current_page = PAGE_ADV_SEARCH /\ FiltersSet > 0
\* and one that found two results
FormSearchFound ==
  /\ pc = "nav" /\ key = K_RETURN /\ prev.page = PAGE_ADV_SEARCH
  /\ item_count = 2 /\ current_page = PAGE_ADV_RESULTS


\* ----------------------------------------------------------------------
\* C37: every operation of the network service (connect, socket read,
\* socket write, socket close) sends its frame with the network target id
\* as first byte and, when it returns, leaves the driver's selected target
\* as it was before the call.
NetCalls == {"uci_connect", "uci_socket_read", "uci_socket_write",
             "uci_socket_close"}
NetCallStep ==
  /\ (uci_pc' = "push" /\ call'.fn \in NetCalls)
       => (wr' = call'.bytes /\ wr'[1] = UCI_TARGET_NETWORK)
  /\ (uci_pc = "return" /\ uci_pc' = "caller" /\ call.fn \in NetCalls)
       => uci_target' = call.saved
C37_NetworkTarget == [][NetCallStep]_vars

\* A socket write has returned: its frame went to the network target and
\* the target is the DOS target selected before it
C37_Witness ==
  /\ uci_pc = "caller" /\ call.fn = "uci_socket_write"
  /\ call.bytes[1] = UCI_TARGET_NETWORK /\ call.saved = UCI_TARGET_DOS1
  /\ uci_target = UCI_TARGET_DOS1 /\ unote.accepted


\* ----------------------------------------------------------------------
\* C38: uci_accept raises the data-accept strobe only: the value it writes
\* to the control register has the data-accept bit and never the
\* push-command, abort or clear-error bit, whatever the status register
\* shows when it writes, and it returns only after the data-accept status
\* bit reads clear.
StrobeOnly(v) ==
  /\ HasBit(v, UCI_CTRL_DATA_ACC)
  /\ ~HasBit(v, UCI_CTRL_PUSH_CMD)
  /\ ~HasBit(v, UCI_CTRL_ABORT)
  /\ ~HasBit(v, UCI_CTRL_CLR_ERR)
AcceptStep ==
  /\ (uci_pc = "accept" /\ uci_pc' = "accwait") => StrobeOnly(unote'.ctrl)
  /\ (uci_pc = "accwait" /\ uci_pc' = "return") => ~chan.acc
C38_AcceptStrobeOnly == [][AcceptStep]_vars

\* The second half alone: uci_accept returns only from a state in which the
\* data-accept bit reads clear, and an accept was written before
AcceptReturn ==
  (uci_pc = "accwait" /\ uci_pc' = "return")
     => (~HasBit(StatusReg(chan), UCI_STAT_DATA_ACC)
         /\ HasBit(unote.ctrl, UCI_CTRL_DATA_ACC))
AcceptReturnsClear == [][AcceptReturn]_vars

\* The first half in the calls of the program: with a controller that
\* raises its error flag on a push only, the status read by uci_accept
\* shows neither command busy nor the error flag
AcceptStatusQuiet ==
  uci_pc = "accept" =>
    (~HasBit(StatusReg(chan), UCI_STAT_CMD_BUSY)
     /\ ~HasBit(StatusReg(chan), UCI_STAT_ERROR))

====
